---------------------------- MODULE Spec2Model ----------------------------
(***************************************************************************)
(* A model of cf-elements.js: the rendering scheduler (connectedCallback   *)
(* animation-frame renders, initFunnelWind, automatic initialization, the  *)
(* FunnelWind API), the DOM effect of render() (innerHTML capture and      *)
(* outerHTML replacement), the StyleguideManager paint cascade, and the    *)
(* style assembler of render() (shadow, border, corner, button style).     *)
(* Spec is the scheduler with the cascade; SpecStyle renders one instance. *)
(*                                                                         *)
(* JavaScript runs one task at a time.  The task in progress is the        *)
(* variable stack, the sequence of steps the running code still has to     *)
(* execute; parsing, animation frames, DOMContentLoaded and API calls      *)
(* start only when it is empty.                                            *)
(***************************************************************************)
EXTENDS Integers, Sequences, FiniteSets, TLC

VARIABLES
    doc,        \* the source document being loaded (index into Docs)
    mode,       \* document.readyState when the script ran: "loading" | "ready"
    embedded,   \* the #cf-styleguide-data script: "none" | "valid" |
                \* "malformed", or the name of a payload of Shaped
    nodes,      \* the DOM: every element ever created, with its parentNode
    srcNode,    \* parser's open elements: source index -> node it created
    pending,    \* requestAnimationFrame callbacks registered for the next frame
    stack,      \* steps left in the running task (empty: the event loop is idle)
    dclFired,   \* DOMContentLoaded has been dispatched
    sgData,     \* styleguideManager.data
    baData,     \* brandAssetsManager.data: "null" | "data"
    apiCalls,   \* FunnelWind.* calls made by the page so far
    inst,       \* style assembler: the tag instance whose render() is studied
    styled,     \* style assembler: what that render() emitted
    passDone    \* history: an initFunnelWind pass has completed and nothing
                \* has been parsed or rendered since

vars == <<doc, mode, embedded, nodes, srcNode, pending, stack, dclFired,
          sgData, baData, apiCalls, inst, styled, passDone>>

(***************************************************************************)
(* Bounds of the model.                                                    *)
(***************************************************************************)
MaxApiCalls == 1

(***************************************************************************)
(* Tag kinds.                                                              *)
(***************************************************************************)
\* initFunnelWind's tagOrder.
TagOrder ==
    << "cf-icon", "cf-divider", "cf-image", "cf-video", "cf-headline",
       "cf-subheadline", "cf-paragraph", "cf-button", "cf-input",
       "cf-textarea", "cf-select", "cf-checkbox", "cf-bullet-list",
       "cf-progress-bar", "cf-video-popup", "cf-countdown",
       "cf-checkout-placeholder", "cf-order-summary-placeholder",
       "cf-confirmation-placeholder",
       "cf-flex", "cf-col-inner", "cf-col", "cf-row", "cf-section",
       "cf-popup", "cf-page" >>

\* The elements table, in the order its entries are handed to
\* customElements.define ("cf-col-inner" is commented out there).
Elements ==
    << "cf-page", "cf-section", "cf-row", "cf-col", "cf-flex", "cf-popup",
       "cf-headline", "cf-subheadline", "cf-paragraph", "cf-button",
       "cf-image", "cf-icon", "cf-video", "cf-divider", "cf-input",
       "cf-textarea", "cf-select", "cf-checkbox", "cf-bullet-list",
       "cf-progress-bar", "cf-video-popup", "cf-countdown",
       "cf-checkout-placeholder", "cf-order-summary-placeholder",
       "cf-confirmation-placeholder" >>

\* The tags that are custom elements.
Registered == {Elements[k] : k \in 1..Len(Elements)}

KindIdx(kind) == CHOOSE i \in 1..Len(TagOrder) : TagOrder[i] = kind

\* attr(el, name) of an attribute that is not on the element (null).
NoAttr == "<null>"

\* parentNode values that are not elements.
Body == 0
NoParent == -1


(***************************************************************************)
(* Source documents.  An element of the markup is its tag, the source     *)
(* index of its parent (0: a child of <body>) and the attributes the      *)
(* scheduler and the cascade read.                                        *)
(***************************************************************************)
El(kind, par) ==
    [kind |-> kind, par |-> par, paint |-> NoAttr, color |-> NoAttr,
     textColor |-> NoAttr, iconColor |-> NoAttr]

Docs ==
    << \* 1: the README page
       << El("cf-page", 0),
          [El("cf-section", 1) EXCEPT !.paint = "t1"],
          El("cf-row", 2), El("cf-col", 3), El("cf-headline", 4) >>,
       \* 2: a flex container inside a flex container, in a column
       << El("cf-col", 0),
          [El("cf-flex", 1) EXCEPT !.paint = "t1"],
          [El("cf-flex", 2) EXCEPT !.paint = "t2"],
          El("cf-headline", 3) >>,
       \* 3: a row inside a column
       << El("cf-col", 0), El("cf-row", 1), El("cf-paragraph", 2) >>,
       \* 4: two sibling paint sections; explicit, empty and unset colors
       << [El("cf-section", 0) EXCEPT !.paint = "t1"],
          El("cf-headline", 1),
          [El("cf-paragraph", 1) EXCEPT !.color = "#ff0000"],
          [El("cf-section", 0) EXCEPT !.paint = "t2"],
          El("cf-flex", 4),
          El("cf-subheadline", 5),
          [El("cf-icon", 5) EXCEPT !.color = ""] >>,
       \* 5: a paint container nested in another, a theme that is not in
       \*    the styleguide, a bullet list
       << [El("cf-section", 0) EXCEPT !.paint = "t1"],
          [El("cf-bullet-list", 1) EXCEPT !.textColor = "#00ff00"],
          [El("cf-row", 1) EXCEPT !.paint = "t9"],
          El("cf-icon", 3),
          [El("cf-bullet-list", 3) EXCEPT !.iconColor = ""] >>,
       \* 6: the unregistered cf-col-inner
       << El("cf-col", 0), El("cf-col-inner", 1), El("cf-icon", 2) >> >>

Source == Docs[doc]

(***************************************************************************)
(* The DOM.  A node is a cf-* element (out = FALSE) or the element that a *)
(* render() put in its place (out = TRUE, carrying the data-* attributes).*)
(***************************************************************************)
\* The element the parser (or customElements upgrade) makes of source
\* element i.  CFElement's constructor sets _rendered = false.
NewElement(src, i, parent, upgraded) ==
    [kind |-> src.kind, out |-> FALSE, parent |-> parent, ord |-> i,
     up |-> upgraded, flag |-> FALSE, renders |-> 0,
     paint |-> src.paint, color |-> src.color,
     textColor |-> src.textColor, iconColor |-> src.iconColor,
     dPaintColors |-> NoAttr,
     sColor |-> NoAttr, sTextColor |-> NoAttr, sIconColor |-> NoAttr,
     dColor |-> NoAttr, dColorExplicit |-> FALSE,
     dTextColor |-> NoAttr, dTextColorExplicit |-> FALSE,
     dIconColor |-> NoAttr, dIconColorExplicit |-> FALSE]

Children(ns, p) == {i \in DOMAIN ns : ns[i].parent = p}

RECURSIVE SortByOrd(_, _)
SortByOrd(ns, S) ==
    IF S = {} THEN <<>>
    ELSE LET m == CHOOSE i \in S : \A j \in S : ns[i].ord <= ns[j].ord
         IN  <<m>> \o SortByOrd(ns, S \ {m})

ChildList(ns, p) == SortByOrd(ns, Children(ns, p))

\* The descendants of the nodes of s, in document (tree) order.
RECURSIVE TreeOrder(_, _)
TreeOrder(ns, s) ==
    IF s = <<>> THEN <<>>
    ELSE <<Head(s)>> \o TreeOrder(ns, ChildList(ns, Head(s)))
                     \o TreeOrder(ns, Tail(s))

Descendants(ns, p) == TreeOrder(ns, ChildList(ns, p))

\* Node.isConnected: the parentNode chain ends at <body>.
RECURSIVE InDocument(_, _)
InDocument(ns, i) ==
    IF ns[i].parent = Body THEN TRUE
    ELSE IF ns[i].parent = NoParent THEN FALSE
    ELSE InDocument(ns, ns[i].parent)

RECURSIVE SelectSeq2(_, _, _)
SelectSeq2(ns, s, kind) ==
    IF s = <<>> THEN <<>>
    ELSE (IF ~ns[Head(s)].out /\ ns[Head(s)].kind = kind
          THEN <<Head(s)>> ELSE <<>>) \o SelectSeq2(ns, Tail(s), kind)

\* document.querySelectorAll(tag): a static list, in document order.
QuerySelectorAll(ns, kind) == SelectSeq2(ns, Descendants(ns, Body), kind)

IndexOf(s, x) == CHOOSE k \in 1..Len(s) : s[k] = x


(***************************************************************************)
(* render(): the data-* attributes of the output, and the replacement of  *)
(* the element by its output through outerHTML.                           *)
(***************************************************************************)
TextKinds == {"cf-headline", "cf-subheadline", "cf-paragraph", "cf-icon"}
PaintKinds == {"cf-section", "cf-row", "cf-col", "cf-flex"}

\* JavaScript truthiness of an attribute value: neither null nor "".
Truthy(v) == v # NoAttr /\ v # ""

\* hasExplicitColor && color, with hasExplicitColor = this.hasAttribute(..).
ExplicitColor(v) == (v # NoAttr) /\ Truthy(v)

\* `${color} !important`
Important(color) == color \o " !important"

\* The element render() builds for element n (CFHeadline, CFSubheadline,
\* CFParagraph, CFIcon, CFBulletList; CFSection, CFRow, CFCol, CFFlex;
\* every other tag emits none of the attributes modelled here).  sColor is
\* the color declaration of the inline style (textStyles.color or
\* iconStyles.color; of a bullet list, sTextColor and sIconColor are the
\* declarations its items get).
Output(n) ==
    [n EXCEPT
       !.out = TRUE, !.up = FALSE, !.flag = FALSE, !.renders = 0,
       !.sColor =
           IF n.kind \in TextKinds /\ ExplicitColor(n.color)
           THEN Important(n.color) ELSE NoAttr,
       !.sTextColor =
           IF n.kind = "cf-bullet-list" /\ ExplicitColor(n.textColor)
           THEN Important(n.textColor) ELSE NoAttr,
       !.sIconColor =
           IF n.kind = "cf-bullet-list" /\ ExplicitColor(n.iconColor)
           THEN Important(n.iconColor) ELSE NoAttr,
       !.dPaintColors =
           IF n.kind \in PaintKinds /\ Truthy(n.paint) THEN n.paint ELSE NoAttr,
       !.dColor =
           IF n.kind \in TextKinds /\ ExplicitColor(n.color)
           THEN n.color ELSE NoAttr,
       !.dColorExplicit = (n.kind \in TextKinds /\ ExplicitColor(n.color)),
       !.dTextColor =
           IF n.kind = "cf-bullet-list" /\ ExplicitColor(n.textColor)
           THEN n.textColor ELSE NoAttr,
       !.dTextColorExplicit =
           (n.kind = "cf-bullet-list" /\ ExplicitColor(n.textColor)),
       !.dIconColor =
           IF n.kind = "cf-bullet-list" /\ ExplicitColor(n.iconColor)
           THEN n.iconColor ELSE NoAttr,
       !.dIconColorExplicit =
           (n.kind = "cf-bullet-list" /\ ExplicitColor(n.iconColor))]

\* getContent(el): el.innerHTML, the markup of el's subtree in tree order.
GetContent(ns, e) == Descendants(ns, e)

\* Whether a cf-* element parsed from markup becomes a custom element: it
\* is upgraded (constructor, then connectedCallback) when it is connected
\* and its tag is defined.
Upgrades(kind, connected) == connected /\ kind \in Registered

\* this.outerHTML = `<div ...>${content}</div>` on element e: e leaves its
\* parent; the markup is parsed into new nodes that take its place.  The
\* old subtree stays below e.  With no parent the setter does nothing.
\* Result: the new DOM and the new custom elements, in tree order.
SetOuterHTML(ns, e) ==
    IF ns[e].parent = NoParent
    THEN [dom |-> ns, connected |-> <<>>]
    ELSE
      LET content == GetContent(ns, e)
          base == Len(ns)
          d == base + 1
          connected == InDocument(ns, e)
          CopyOf(x) == base + 1 + IndexOf(content, x)
          Copy(x) ==
              [ns[x] EXCEPT
                 !.parent = IF ns[x].parent = e THEN d ELSE CopyOf(ns[x].parent),
                 !.up = (~ns[x].out /\ Upgrades(ns[x].kind, connected)),
                 !.flag = FALSE,
                 !.renders = 0]
          copies == [k \in 1..Len(content) |-> Copy(content[k])]
          detached == [ns EXCEPT ![e].parent = NoParent]
      IN  [dom |-> detached \o <<Output(ns[e])>> \o copies,
           connected |->
               SelectSeq([k \in 1..Len(content) |-> base + 1 + k],
                         LAMBDA i : copies[i - base - 1].up)]

\* el.render(); el._rendered = true;
RenderElement(ns, e) ==
    LET r == SetOuterHTML(ns, e)
    IN  [dom |-> [r.dom EXCEPT ![e].flag = TRUE,
                               ![e].renders = ns[e].renders + 1],
         connected |-> r.connected]


(***************************************************************************)
(* StyleguideManager: the store and the paint cascade.                    *)
(***************************************************************************)
\* this.data = null
NoData ==
    [isNull |-> TRUE, colors |-> <<>>, paintThemes |-> <<>>,
     shadows |-> <<>>, borders |-> <<>>, corners |-> <<>>, buttons |-> <<>>,
     typography |-> <<>>, stringCatalogs |-> {}, objectCatalogs |-> {}]

\* A styleguide: a palette and two paint themes; theme "t2" names an icon
\* color that is not in the palette.  typography is <<>> when the key is
\* missing; baseSize is <<>> or <<b>>, scaleRatio <<>> or the ratio
\* <<numerator, denominator>> (5/4 is 1.25).  A catalog key whose value is
\* not a list is named in stringCatalogs when the value is a non-empty
\* string (it has a length but neither forEach nor some) and in
\* objectCatalogs when it is an object or a number (no length, no some).
Styleguide ==
    [isNull |-> FALSE,
     colors |-> << [id |-> "c1", hex |-> "#111111"],
                   [id |-> "c2", hex |-> "#222222"],
                   [id |-> "c3", hex |-> "#333333"],
                   [id |-> "c4", hex |-> "#444444"],
                   [id |-> "c5", hex |-> "#555555"],
                   [id |-> "c6", hex |-> "#666666"] >>,
     paintThemes |->
         << [id |-> "t1", headlineColorId |-> "c1",
             subheadlineColorId |-> "c2", contentColorId |-> "c3",
             iconColorId |-> "c4"],
            [id |-> "t2", headlineColorId |-> "c5",
             subheadlineColorId |-> "c6", contentColorId |-> "c1",
             iconColorId |-> "c0"] >>,
     shadows |-> << [id |-> "style1"] >>,
     borders |-> << [id |-> "style1"] >>,
     corners |-> << [id |-> "corner1"] >>,
     buttons |-> << [id |-> "btn1"] >>,
     typography |-> << [baseSize |-> <<16>>, scaleRatio |-> <<5, 4>>] >>,
     stringCatalogs |-> {}, objectCatalogs |-> {}]

\* The styleguides loaded: Styleguide, the same without its typography key,
\* with a typography that leaves both keys to their defaults, with
\* baseSize 18 and scaleRatio 1.5, and with a borders catalog that lacks
\* the id "style1" of the shadows catalog.
Styleguides ==
    { Styleguide,
      [Styleguide EXCEPT !.typography = <<>>],
      [Styleguide EXCEPT
          !.typography = << [baseSize |-> <<>>, scaleRatio |-> <<>>] >>],
      [Styleguide EXCEPT
          !.typography = << [baseSize |-> <<18>>, scaleRatio |-> <<3, 2>>] >>],
      [Styleguide EXCEPT !.borders = << [id |-> "style2"] >>] }

\* A getColorHex without the fallback: color?.hex.
HexOrUndefined(data, colorId) ==
    IF \E k \in 1..Len(data.colors) : data.colors[k].id = colorId
    THEN (CHOOSE c \in {data.colors[k] : k \in 1..Len(data.colors)} :
              c.id = colorId).hex
    ELSE NoAttr

\* getColorHex(colorId)
GetColorHex(data, colorId) ==
    IF \E k \in 1..Len(data.colors) : data.colors[k].id = colorId
    THEN LET k == CHOOSE k \in 1..Len(data.colors) :
                      /\ data.colors[k].id = colorId
                      /\ \A j \in 1..(k - 1) : data.colors[j].id # colorId
         IN  data.colors[k].hex
    ELSE "#000000"

\* The data-type attribute render() gives the output of a tag.
DataType(kind) ==
    CASE kind = "cf-headline"    -> "Headline/V1"
      [] kind = "cf-subheadline" -> "SubHeadline/V1"
      [] kind = "cf-paragraph"   -> "Paragraph/V1"
      [] kind = "cf-icon"        -> "Icon/V1"
      [] kind = "cf-bullet-list" -> "BulletList/V1"
      [] OTHER                   -> kind

\* Whether c is an ancestor of i (container.querySelectorAll reaches i).
RECURSIVE IsDescendant(_, _, _)
IsDescendant(ns, i, c) ==
    IF ns[i].parent \in {Body, NoParent} THEN FALSE
    ELSE ns[i].parent = c \/ IsDescendant(ns, ns[i].parent, c)

\* el.closest('[data-paint-colors]'): el or its nearest ancestor carrying
\* the attribute (Body: none).
RECURSIVE Closest(_, _)
Closest(ns, i) ==
    IF ns[i].out /\ ns[i].dPaintColors # NoAttr THEN i
    ELSE IF ns[i].parent \in {Body, NoParent} THEN Body
    ELSE Closest(ns, ns[i].parent)

\* A cascade without the nearest-container test: every descendant of the
\* container is taken.
AnyPaintDescendant(ns, el, paintContainer) == TRUE

\* isDirectPaintDescendant(el, paintContainer)
IsDirectPaintDescendant(ns, el, paintContainer) ==
    Closest(ns, el) = paintContainer

\* A cascade that handles the Headline/V1 block only.
PaintHeadlinesOnly(data, theme, n) ==
    IF DataType(n.kind) = "Headline/V1" /\ ~n.dColorExplicit
    THEN [n EXCEPT !.dColor = GetColorHex(data, theme.headlineColorId)]
    ELSE n

\* The setAttribute calls of one container of `theme` on one element: the
\* five data-type blocks of applyFontDataAttributes.
PaintElement(data, theme, n) ==
    LET headlineColor == GetColorHex(data, theme.headlineColorId)
        subheadlineColor == GetColorHex(data, theme.subheadlineColorId)
        contentColor == GetColorHex(data, theme.contentColorId)
        iconColor == GetColorHex(data, theme.iconColorId)
        type == DataType(n.kind)
        SetColor(c) == IF n.dColorExplicit THEN n ELSE [n EXCEPT !.dColor = c]
    IN  CASE type = "Headline/V1"    -> SetColor(headlineColor)
          [] type = "SubHeadline/V1" -> SetColor(subheadlineColor)
          [] type = "Paragraph/V1"   -> SetColor(contentColor)
          [] type = "Icon/V1"        -> SetColor(iconColor)
          [] type = "BulletList/V1"  ->
                [n EXCEPT
                   !.dTextColor = IF n.dTextColorExplicit THEN @ ELSE contentColor,
                   !.dIconColor = IF n.dIconColorExplicit THEN @ ELSE iconColor]
          [] OTHER -> n

\* One container of one theme.
PaintContainer(ns, data, theme, container) ==
    [i \in DOMAIN ns |->
        IF /\ ns[i].out
           /\ IsDescendant(ns, i, container)
           /\ IsDirectPaintDescendant(ns, i, container)
        THEN PaintElement(data, theme, ns[i])
        ELSE ns[i]]

\* document.querySelectorAll(`[data-paint-colors="${theme.id}"]`)
RECURSIVE SelectPaint(_, _, _)
SelectPaint(ns, s, id) ==
    IF s = <<>> THEN <<>>
    ELSE (IF ns[Head(s)].out /\ ns[Head(s)].dPaintColors = id
          THEN <<Head(s)>> ELSE <<>>) \o SelectPaint(ns, Tail(s), id)

PaintContainers(ns, id) == SelectPaint(ns, Descendants(ns, Body), id)

RECURSIVE PaintEach(_, _, _, _)
PaintEach(ns, data, theme, containers) ==
    IF containers = <<>> THEN ns
    ELSE PaintEach(PaintContainer(ns, data, theme, Head(containers)),
                   data, theme, Tail(containers))

\* applyFontDataAttributes(): the paintThemes.forEach loop.  (The data-font
\* and data-link-color attributes it also writes are not part of the
\* modelled DOM.)
RECURSIVE ApplyThemes(_, _, _)
ApplyThemes(ns, data, themes) ==
    IF themes = <<>> THEN ns
    ELSE ApplyThemes(
             PaintEach(ns, data, Head(themes),
                       PaintContainers(ns, Head(themes).id)),
             data, Tail(themes))

ApplyFontDataAttributes(ns, data) ==
    IF data.isNull THEN ns ELSE ApplyThemes(ns, data, data.paintThemes)


(***************************************************************************)
(* The style assembler: what render() of a tag emits for shadow, border,  *)
(* corner / rounded and the button style.  An emitted value NoAttr means  *)
(* that the declaration or attribute is not in the output.                *)
(***************************************************************************)
\* The preset tables.
SHADOWS ==
    [k \in {"none", "sm", "default", "md", "lg", "xl", "2xl"} |->
        CASE k = "none"    -> "none"
          [] k = "sm"      -> "0 1px 2px rgba(0,0,0,0.05)"
          [] k = "default" -> "0 1px 3px rgba(0,0,0,0.1)"
          [] k = "md"      -> "0 4px 6px rgba(0,0,0,0.1)"
          [] k = "lg"      -> "0 10px 15px rgba(0,0,0,0.1)"
          [] k = "xl"      -> "0 20px 25px rgba(0,0,0,0.1)"
          [] k = "2xl"     -> "0 25px 50px rgba(0,0,0,0.25)"]

RADIUS ==
    [k \in {"none", "sm", "default", "md", "lg", "xl", "2xl", "3xl", "full"} |->
        CASE k = "none"    -> "0"
          [] k = "sm"      -> "4px"
          [] k = "default" -> "8px"
          [] k = "md"      -> "12px"
          [] k = "lg"      -> "16px"
          [] k = "xl"      -> "20px"
          [] k = "2xl"     -> "24px"
          [] k = "3xl"     -> "32px"
          [] k = "full"    -> "9999px"]

BORDER_WIDTHS ==
    [k \in {"0", "1", "2", "3", "4", "6", "8"} |->
        CASE k = "0" -> "0"
          [] k = "1" -> "1px"
          [] k = "2" -> "2px"
          [] k = "3" -> "3px"
          [] k = "4" -> "4px"
          [] k = "6" -> "6px"
          [] k = "8" -> "8px"]

\* attr(el, name, fallback) of an attribute whose value is v.
Attr(v, fallback) == IF v # NoAttr THEN v ELSE fallback

\* The members every object literal inherits from Object.prototype, as the
\* text a template literal makes of them (two of them are enough here).
ObjectPrototype ==
    [k \in {"constructor", "toString"} |->
        IF k = "constructor" THEN "function Object() { [native code] }"
        ELSE "function toString() { [native code] }"]

\* obj[key] of an object literal: an own property, else an inherited
\* member, else undefined (NoAttr).
Member(obj, key) ==
    IF key \in DOMAIN obj THEN obj[key]
    ELSE IF key \in DOMAIN ObjectPrototype THEN ObjectPrototype[key]
    ELSE NoAttr

\* resolve(value, presets); null is NoAttr.
Resolve(value, presets) ==
    IF ~Truthy(value) THEN NoAttr
    ELSE IF Truthy(Member(presets, value))
         THEN Member(presets, value) ELSE value

\* a || b
OrElse(a, b) == IF Truthy(a) THEN a ELSE b

(***************************************************************************)
(* Typography: the static size presets and the styleguide's typescale.     *)
(***************************************************************************)
FONT_SIZES ==
    [k \in {"xs", "s", "sm", "m", "md", "l", "lg", "xl", "2xl", "3xl", "4xl",
            "5xl"} |->
        CASE k = "xs"  -> "12px"
          [] k = "s"   -> "14px"
          [] k = "sm"  -> "14px"
          [] k = "m"   -> "16px"
          [] k = "md"  -> "16px"
          [] k = "l"   -> "20px"
          [] k = "lg"  -> "20px"
          [] k = "xl"  -> "24px"
          [] k = "2xl" -> "32px"
          [] k = "3xl" -> "40px"
          [] k = "4xl" -> "48px"
          [] k = "5xl" -> "64px"]

\* Math.pow(x, n) for a natural n
RECURSIVE Pow(_, _)
Pow(x, n) == IF n = 0 THEN 1 ELSE x * Pow(x, n - 1)

\* p / q cut off after the point
Truncate(p, q) == p \div q

\* Math.round(p / q) for positive p and q: halves round up.
Round(p, q) == (2 * p + q) \div (2 * q)

\* The step of the scale object of getTypescale: n3..n1 are the steps -3..-1,
\* base is step 0 and p1..p8 the steps 1..8, for baseSize b and the
\* scaleRatio r = <<numerator, denominator>>.
ScaleStep(b, r, n) ==
    IF n = 0 THEN b
    ELSE IF n > 0 THEN Round(b * Pow(r[1], n), Pow(r[2], n))
    ELSE Round(b * Pow(r[2], 0 - n), Pow(r[1], 0 - n))

\* `${scale.x}px`
Px(n) == ToString(n) \o "px"

\* The three tables getTypescale returns, as the step each preset names.
HeadlineScale ==
    [k \in DOMAIN FONT_SIZES |->
        CASE k = "5xl" -> 8 [] k = "4xl" -> 7 [] k = "3xl" -> 6
          [] k = "2xl" -> 5 [] k = "xl" -> 4 [] k = "l" -> 3 [] k = "lg" -> 3
          [] k = "m" -> 2 [] k = "md" -> 2 [] k = "s" -> 1 [] k = "sm" -> 1
          [] k = "xs" -> 0]

SubheadlineScale ==
    [k \in DOMAIN FONT_SIZES |->
        CASE k = "5xl" -> 7 [] k = "4xl" -> 6 [] k = "3xl" -> 5
          [] k = "2xl" -> 4 [] k = "xl" -> 3 [] k = "l" -> 2 [] k = "lg" -> 2
          [] k = "m" -> 1 [] k = "md" -> 1 [] k = "s" -> 0 [] k = "sm" -> 0
          [] k = "xs" -> -1]

ParagraphScale ==
    [k \in DOMAIN FONT_SIZES |->
        CASE k = "5xl" -> 6 [] k = "4xl" -> 5 [] k = "3xl" -> 4
          [] k = "2xl" -> 3 [] k = "xl" -> 2 [] k = "l" -> 1 [] k = "lg" -> 1
          [] k = "m" -> 0 [] k = "md" -> 0 [] k = "s" -> -1 [] k = "sm" -> -1
          [] k = "xs" -> -2]

\* getTypescale(): <<>> is null, otherwise the one-element sequence of the
\* object with the headline, subheadline and paragraph tables.
GetTypescale(data) ==
    IF data.isNull \/ data.typography = <<>> THEN <<>>
    ELSE LET t == data.typography[1]
             b == IF t.baseSize = <<>> THEN 16 ELSE t.baseSize[1]
             r == IF t.scaleRatio = <<>> THEN <<5, 4>> ELSE t.scaleRatio
             Table(steps) ==
                 [k \in DOMAIN steps |-> Px(ScaleStep(b, r, steps[k]))]
         IN  << [headline    |-> Table(HeadlineScale),
                 subheadline |-> Table(SubheadlineScale),
                 paragraph   |-> Table(ParagraphScale)] >>

\* resolveSize(size, elementType); null is NoAttr.
ResolveSize(data, size, elementType) ==
    LET typescale == GetTypescale(data)
    IN  IF typescale = <<>> THEN NoAttr
        ELSE LET elementScale ==
                     IF elementType \in DOMAIN typescale[1]
                     THEN typescale[1][elementType]
                     ELSE typescale[1].headline
             IN  IF Truthy(Member(elementScale, size))
                 THEN Member(elementScale, size) ELSE NoAttr

\* An isStyleguideRef that looks the value up in every catalog.
AnyCatalogRef(data, value, type) ==
    /\ Truthy(value)
    /\ ~data.isNull
    /\ \E c \in {data.paintThemes, data.shadows, data.borders, data.corners,
                  data.buttons} : \E k \in 1..Len(c) : c[k].id = value

\* An isStyleguideRef that finds no reference.
NeverStyleguideRef(data, value, type) == FALSE

\* isStyleguideRef(value, type)
IsStyleguideRef(data, value, type) ==
    IF ~Truthy(value) \/ data.isNull THEN FALSE
    ELSE CASE type = "paint" ->
                \E k \in 1..Len(data.paintThemes) : data.paintThemes[k].id = value
           [] type = "shadow" ->
                \E k \in 1..Len(data.shadows) : data.shadows[k].id = value
           [] type = "border" ->
                \E k \in 1..Len(data.borders) : data.borders[k].id = value
           [] type = "corner" ->
                \E k \in 1..Len(data.corners) : data.corners[k].id = value
           [] type = "button" ->
                \E k \in 1..Len(data.buttons) : data.buttons[k].id = value
           [] OTHER -> FALSE

\* Nothing emitted (and the value of styled before render() has run).
NotRendered ==
    [rendered |-> FALSE,
     boxShadow |-> NoAttr, borderWidth |-> NoAttr, borderStyle |-> NoAttr,
     borderRadius |-> NoAttr, borderTopLeftRadius |-> NoAttr,
     backgroundColor |-> NoAttr,
     innerContainer |-> FALSE,
     imgBorderRadius |-> NoAttr, imgBoxShadow |-> NoAttr,
     innerBorderRadius |-> NoAttr, innerBoxShadow |-> NoAttr,
     dShadow |-> NoAttr, dBorder |-> NoAttr, dCorner |-> NoAttr,
     dButton |-> NoAttr,
     fontSize |-> NoAttr, gap |-> NoAttr, background |-> NoAttr,
     marginBottom |-> NoAttr,
     color |-> NoAttr, borderColor |-> NoAttr,
     dBg |-> NoAttr, dColor |-> NoAttr, dataShadow |-> NoAttr,
     dSize |-> NoAttr, dGap |-> NoAttr, dRounded |-> NoAttr,
     dPopupRounded |-> NoAttr, dSrc |-> NoAttr, dPaintColors |-> NoAttr]

\* The inline declarations and data-style-guide-* attributes shared by the
\* renders that tell catalog references from values: `radius` is the value
\* the tag uses for border-radius when the corner is not a reference.
RefAware(a, data, shadow, radius) ==
    LET isShadowStyleguide ==
            Truthy(shadow) /\ IsStyleguideRef(data, shadow, "shadow")
        isBorderStyleguide ==
            Truthy(a.border) /\ IsStyleguideRef(data, a.border, "border")
        isCornerStyleguide ==
            Truthy(a.corner) /\ IsStyleguideRef(data, a.corner, "corner")
        inlineBorder == Truthy(a.border) /\ ~isBorderStyleguide
    IN  [NotRendered EXCEPT
           !.rendered = TRUE,
           !.boxShadow =
               IF Truthy(shadow) /\ ~isShadowStyleguide
               THEN OrElse(Resolve(shadow, SHADOWS), shadow) ELSE NoAttr,
           !.borderRadius =
               IF ~isCornerStyleguide /\ Truthy(radius)
               THEN OrElse(Resolve(radius, RADIUS), radius) ELSE NoAttr,
           !.borderWidth =
               IF inlineBorder
               THEN OrElse(Resolve(a.border, BORDER_WIDTHS), a.border)
               ELSE NoAttr,
           !.borderStyle = IF inlineBorder THEN "solid" ELSE NoAttr,
           !.dShadow = IF isShadowStyleguide THEN shadow ELSE NoAttr,
           !.dBorder = IF isBorderStyleguide THEN a.border ELSE NoAttr,
           !.dCorner = IF isCornerStyleguide THEN a.corner ELSE NoAttr]

\* The bg block without the test of paint.
BackgroundDespitePaint(a, r) ==
    [r EXCEPT
       !.background = IF Truthy(a.gradient) THEN a.gradient ELSE NoAttr,
       !.backgroundColor =
           IF ~Truthy(a.gradient) /\ Truthy(a.bg) THEN a.bg ELSE NoAttr,
       !.dPaintColors = IF Truthy(a.paint) THEN a.paint ELSE NoAttr]

\* The block "only apply bg if not using paint" of the four containers and
\* their data-paint-colors attribute, added to the declarations r.
Background(a, r) ==
    [r EXCEPT
       !.background =
           IF ~Truthy(a.paint) /\ Truthy(a.gradient)
           THEN a.gradient ELSE NoAttr,
       !.backgroundColor =
           IF ~Truthy(a.paint) /\ ~Truthy(a.gradient) /\ Truthy(a.bg)
           THEN a.bg ELSE NoAttr,
       !.dPaintColors = IF Truthy(a.paint) THEN a.paint ELSE NoAttr]

\* s.endsWith(suffix)
EndsWith(s, suffix) ==
    /\ Len(s) >= Len(suffix)
    /\ SubSeq(s, Len(s) - Len(suffix) + 1, Len(s)) = suffix

\* parseFloat(gap) of the values ending in px that are tried: <<n>> is the
\* number n, <<>> is NaN (the text does not start with a number).
ParseFloat ==
    [g \in {"16px", "24px", "autopx"} |->
        CASE g = "16px" -> <<16>> [] g = "24px" -> <<24>> [] OTHER -> <<>>]

\* pxValue / 16 + "em", for NaN and for a multiple of 8
Em(pxValue) ==
    IF pxValue = <<>> THEN "NaNem"
    ELSE IF pxValue[1] % 16 = 0 THEN ToString(pxValue[1] \div 16) \o "em"
    ELSE ToString(pxValue[1] \div 16) \o ".5em"

\* CFSection.render (without a data-popup-rounded attribute), CFRow.render
\* and CFCol.render: the radius is the rounded attribute.  CFCol.render
\* also reads the per-corner attributes rounded-tl, rounded-tr, rounded-bl
\* and rounded-br, each with the same statement; rounded-tl stands for the
\* four.
CFSectionRender(a, data) ==
    Background(a, RefAware(a, data, a.shadow, a.rounded))
CFRowRender(a, data) ==
    Background(a, RefAware(a, data, a.shadow, a.rounded))
CFColRender(a, data) ==
    [Background(a, RefAware(a, data, a.shadow, a.rounded)) EXCEPT
        !.borderTopLeftRadius =
            IF Truthy(a.roundedTl)
            THEN OrElse(Resolve(a.roundedTl, RADIUS), a.roundedTl)
            ELSE NoAttr]

\* CFFlex.render: the radius is rounded || corner.
CFFlexRender(a, data) ==
    LET r == Background(a,
                 RefAware(a, data, a.shadow, OrElse(a.rounded, a.corner)))
        gapValue ==
            IF Truthy(a.gap)
            THEN IF EndsWith(a.gap, "px")
                 THEN Em(ParseFloat[a.gap]) ELSE a.gap
            ELSE "1.5em"
    IN  [r EXCEPT !.gap = gapValue, !.dGap = gapValue]

\* A CFImage.render that never wraps the img: radius and shadow always go
\* on the img.
ImageWithoutWrapper(a, data) ==
    LET r == RefAware(a, data, a.shadow, OrElse(a.rounded, a.corner))
    IN  [r EXCEPT !.imgBorderRadius = r.borderRadius,
                  !.imgBoxShadow = r.boxShadow,
                  !.dSrc = Attr(a.src, ""),
                  !.dRounded = IF Truthy(a.rounded) THEN a.rounded ELSE NoAttr]

\* CFImage.render: as CFFlex, with the inner container when an inline
\* radius and an inline shadow come together.  borderRadius and boxShadow
\* are the declarations of the output wherever they are; innerBorderRadius
\* and innerBoxShadow are those of innerContainerStyles (the span around
\* the img), imgBorderRadius and imgBoxShadow those of imgStyles.
CFImageRender(a, data) ==
    LET r == RefAware(a, data, a.shadow, OrElse(a.rounded, a.corner))
        isShadowStyleguide ==
            Truthy(a.shadow) /\ IsStyleguideRef(data, a.shadow, "shadow")
        isCornerStyleguide ==
            Truthy(a.corner) /\ IsStyleguideRef(data, a.corner, "corner")
        radius == OrElse(a.rounded, a.corner)
        hasInlineRadius == ~isCornerStyleguide /\ Truthy(radius)
        hasInlineShadow == Truthy(a.shadow) /\ ~isShadowStyleguide
        needsInnerContainer == hasInlineRadius /\ hasInlineShadow
        resolvedRadius ==
            IF Truthy(radius) THEN OrElse(Resolve(radius, RADIUS), radius)
            ELSE NoAttr
        resolvedShadow ==
            IF Truthy(a.shadow) THEN OrElse(Resolve(a.shadow, SHADOWS), a.shadow)
            ELSE NoAttr
    IN  [r EXCEPT !.innerContainer = needsInnerContainer,
                  !.innerBorderRadius =
                      IF needsInnerContainer THEN resolvedRadius ELSE NoAttr,
                  !.innerBoxShadow =
                      IF needsInnerContainer THEN resolvedShadow ELSE NoAttr,
                  !.imgBorderRadius =
                      IF ~needsInnerContainer /\ hasInlineRadius
                      THEN resolvedRadius ELSE NoAttr,
                  !.imgBoxShadow =
                      IF ~needsInnerContainer /\ hasInlineShadow
                      THEN resolvedShadow ELSE NoAttr,
                  !.dSrc = Attr(a.src, ""),
                  !.dRounded = IF Truthy(a.rounded) THEN a.rounded ELSE NoAttr]

\* CFVideo.render: rounded and shadow default to "lg".
CFVideoRender(a, data) ==
    LET rounded == Attr(a.rounded, "lg")
    IN  [RefAware(a, data, Attr(a.shadow, "lg"), OrElse(rounded, a.corner))
           EXCEPT !.dRounded = IF rounded # "lg" THEN rounded ELSE NoAttr]

\* CFPopup.render
CFPopupRender(a, data) ==
    LET rounded == Attr(a.rounded, "16px")
        mb == Attr(a.mb, "10px")
    IN  [NotRendered EXCEPT
           !.rendered = TRUE,
           !.marginBottom = IF mb # "" THEN mb ELSE NoAttr,   \* buildStyle
           !.dPopupRounded = rounded,
           !.borderRadius = OrElse(Resolve(rounded, RADIUS), rounded),
           !.borderWidth =
               IF Truthy(a.border)
               THEN OrElse(Resolve(a.border, BORDER_WIDTHS), a.border)
               ELSE NoAttr,
           !.borderStyle = IF Truthy(a.border) THEN "solid" ELSE NoAttr,
           !.backgroundColor = "#ffffff",
           !.boxShadow =
               IF Truthy(a.shadow)
               THEN OrElse(Resolve(a.shadow, SHADOWS), a.shadow) ELSE NoAttr]

\* CFDivider.render
CFDividerRender(a, data) ==
    [NotRendered EXCEPT
       !.rendered = TRUE,
       !.boxShadow =
           IF Truthy(a.shadow)
           THEN OrElse(Resolve(a.shadow, SHADOWS), a.shadow) ELSE NoAttr]

\* CFInput.render (CFTextarea.render and CFSelect.render have the same
\* declarations)
CFInputRender(a, data) ==
    LET rounded == Attr(a.rounded, "lg")
        border == Attr(a.border, "1")
    IN  [NotRendered EXCEPT
           !.rendered = TRUE,
           !.borderRadius = OrElse(Resolve(rounded, RADIUS), rounded),
           !.borderWidth = OrElse(Resolve(border, BORDER_WIDTHS), border),
           !.borderStyle = "solid",
           !.backgroundColor = "#ffffff",
           !.boxShadow =
               IF Truthy(a.shadow)
               THEN OrElse(Resolve(a.shadow, SHADOWS), a.shadow) ELSE NoAttr]

\* CFProgressBar.render
CFProgressBarRender(a, data) ==
    LET rounded == Attr(a.rounded, "full")
        text == Attr(a.text, "")
        textOutside == Attr(a.textOutside, "false") = "true"
    IN  [NotRendered EXCEPT
           !.rendered = TRUE,
           !.marginBottom =
               IF Truthy(text) /\ textOutside THEN "8px" ELSE NoAttr,
           !.dRounded = IF rounded # "full" THEN rounded ELSE NoAttr,
           !.borderRadius = OrElse(Resolve(rounded, RADIUS), rounded),
           !.borderWidth = IF Truthy(a.border) THEN a.border ELSE NoAttr,
           !.borderStyle = IF Truthy(a.border) THEN "solid" ELSE NoAttr,
           !.backgroundColor = "#e2e8f0",
           !.boxShadow =
               IF Truthy(a.shadow)
               THEN OrElse(Resolve(a.shadow, SHADOWS), a.shadow) ELSE NoAttr]

\* CFVideoPopup.render
CFVideoPopupRender(a, data) ==
    LET rounded == Attr(a.rounded, "lg")
        shadow == Attr(a.shadow, "lg")
    IN  [NotRendered EXCEPT
           !.rendered = TRUE,
           !.dRounded = IF rounded # "lg" THEN rounded ELSE NoAttr,
           !.borderRadius = OrElse(Resolve(rounded, RADIUS), rounded),
           !.borderWidth = IF Truthy(a.border) THEN a.border ELSE NoAttr,
           !.borderStyle = IF Truthy(a.border) THEN "solid" ELSE NoAttr,
           !.boxShadow =
               IF Truthy(shadow)
               THEN OrElse(Resolve(shadow, SHADOWS), shadow) ELSE NoAttr]

\* buildStyle(styles) of one declaration: an empty value is left out.
BuildStyle(v) == IF v = "" THEN NoAttr ELSE v

\* CFButton.render (border-width and border-color at their defaults: the
\* attributes are absent).  dataShadow is data-shadow, dBg data-bg, dColor
\* data-color.
CFButtonRender(a, data) ==
    LET isStyleguideButton ==
            Truthy(a.style) /\ IsStyleguideRef(data, a.style, "button")
        bg == Attr(a.bg, "#3b82f6")
        color == Attr(a.color, "#ffffff")
        size == Attr(a.size, "20px")
        rounded == Attr(a.rounded, "default")
    IN  [NotRendered EXCEPT
           !.rendered = TRUE,
           !.backgroundColor =
               IF ~isStyleguideButton /\ Truthy(bg) THEN bg ELSE NoAttr,
           !.borderRadius =
               IF ~isStyleguideButton /\ Truthy(rounded)
               THEN OrElse(Resolve(rounded, RADIUS), rounded) ELSE NoAttr,
           !.borderStyle = IF ~isStyleguideButton THEN "solid" ELSE NoAttr,
           !.borderWidth = IF ~isStyleguideButton THEN "0" ELSE NoAttr,
           !.borderColor =
               IF ~isStyleguideButton THEN "transparent" ELSE NoAttr,
           !.boxShadow =
               IF ~isStyleguideButton /\ Truthy(a.shadow)
               THEN OrElse(Resolve(a.shadow, SHADOWS), a.shadow) ELSE NoAttr,
           !.fontSize = BuildStyle(size),
           !.color =
               IF ~isStyleguideButton /\ Truthy(color) THEN color ELSE NoAttr,
           !.dButton = IF isStyleguideButton THEN a.style ELSE NoAttr,
           !.dBg = IF Truthy(bg) THEN bg ELSE NoAttr,
           !.dColor = IF Truthy(color) THEN color ELSE NoAttr,
           !.dRounded = IF Truthy(rounded) THEN rounded ELSE NoAttr,
           !.dataShadow = IF Truthy(a.shadow) THEN a.shadow ELSE NoAttr,
           !.dSize = size]

\* CFIcon.render: the font-size and the data-size.
CFIconRender(a, data) ==
    LET size == Attr(a.size, "48px")
    IN  [NotRendered EXCEPT
           !.rendered = TRUE,
           !.fontSize = BuildStyle(size),
           !.dSize = IF size # "48px" THEN size ELSE NoAttr]

\* The font-size and data-size of the four text renders: size is the
\* attribute or the tag's default, elementType the scale asked of
\* resolveSize.
TextRender(size, data, elementType) ==
    [NotRendered EXCEPT
       !.rendered = TRUE,
       !.fontSize =
           OrElse(OrElse(ResolveSize(data, size, elementType),
                         Resolve(size, FONT_SIZES)), size),
       !.dSize = size]

\* CFHeadline.render, CFSubheadline.render, CFParagraph.render and
\* CFBulletList.render
CFHeadlineRender(a, data) ==
    TextRender(Attr(a.size, "48px"), data, "headline")
CFSubheadlineRender(a, data) ==
    TextRender(Attr(a.size, "24px"), data, "subheadline")
CFParagraphRender(a, data) ==
    TextRender(Attr(a.size, "16px"), data, "paragraph")
CFBulletListRender(a, data) ==
    TextRender(Attr(a.size, "m"), data, "paragraph")

\* The tags whose render() is modelled, and the attribute values tried:
\* absent, empty, a preset key, a catalog id, a raw CSS value.
StyledTags ==
    { "cf-section", "cf-row", "cf-col", "cf-flex", "cf-image", "cf-video",
      "cf-popup", "cf-divider", "cf-input", "cf-progress-bar",
      "cf-video-popup", "cf-button" }
ContainerTags == {"cf-section", "cf-row", "cf-col", "cf-flex"}
TextTags == {"cf-headline", "cf-subheadline", "cf-paragraph", "cf-bullet-list"}
ShadowValues == {NoAttr, "", "lg", "style1", "0 0 4px red"}
BorderValues == {NoAttr, "2", "style1"}
CornerValues == {NoAttr, "corner1", "12px"}
RoundedValues == {NoAttr, "xl"}
StyleValues == {NoAttr, "btn1", "dashed"}

\* The values tried for the other attributes: absent, empty, a preset key or
\* catalog id, a raw value, and for size a name every object inherits.
AttrValues ==
    [size        |-> {NoAttr, "", "xl", "40px", "constructor"},
     gap         |-> {NoAttr, "", "16px", "24px", "2em", "autopx"},
     paint       |-> {NoAttr, "", "t1"},
     bg          |-> {NoAttr, "#ffffff"},
     gradient    |-> {NoAttr, "linear-gradient(red, blue)"},
     mb          |-> {NoAttr, "", "20px"},
     src         |-> {NoAttr, "a.png"},
     text        |-> {NoAttr, "", "Step 1"},
     textOutside |-> {NoAttr, "true"},
     roundedTl   |-> {NoAttr, "", "8px", "lg"},
     color       |-> {NoAttr, "", "#ff0000"}]

\* No instance under study (the scheduler's executions): every attribute
\* absent.
NoInstance ==
    [tag |-> "none", shadow |-> NoAttr, border |-> NoAttr, corner |-> NoAttr,
     rounded |-> NoAttr, style |-> NoAttr, size |-> NoAttr, gap |-> NoAttr,
     paint |-> NoAttr, bg |-> NoAttr, gradient |-> NoAttr, mb |-> NoAttr,
     src |-> NoAttr, text |-> NoAttr, textOutside |-> NoAttr,
     roundedTl |-> NoAttr, color |-> NoAttr]

\* The instances rendered: every tag with the attributes that name a
\* shadow, border, corner or button style; the containers with paint, bg
\* and gradient; <cf-flex> with gap; the text tags with size; <cf-popup>
\* with mb; <cf-image> with src; <cf-col> with a per-corner radius;
\* <cf-button> with style, bg, color and size; <cf-icon> with size;
\* <cf-progress-bar> with its label.
StyledInstances ==
    {[NoInstance EXCEPT !.tag = t, !.shadow = sh, !.border = bo,
                        !.corner = co, !.rounded = ro, !.style = st] :
        t \in StyledTags, sh \in ShadowValues, bo \in BorderValues,
        co \in CornerValues, ro \in RoundedValues, st \in StyleValues}
    \cup {[NoInstance EXCEPT !.tag = t, !.paint = pa, !.bg = b,
                             !.gradient = gr] :
              t \in ContainerTags, pa \in AttrValues.paint, b \in AttrValues.bg,
              gr \in AttrValues.gradient}
    \cup {[NoInstance EXCEPT !.tag = "cf-flex", !.gap = g] : g \in AttrValues.gap}
    \cup {[NoInstance EXCEPT !.tag = t, !.size = sz] :
              t \in TextTags, sz \in AttrValues.size}
    \cup {[NoInstance EXCEPT !.tag = "cf-popup", !.mb = m, !.rounded = ro] :
              m \in AttrValues.mb, ro \in RoundedValues}
    \cup {[NoInstance EXCEPT !.tag = "cf-image", !.src = sr, !.rounded = ro] :
              sr \in AttrValues.src, ro \in RoundedValues}
    \cup {[NoInstance EXCEPT !.tag = "cf-col", !.corner = co, !.rounded = ro,
                             !.roundedTl = tl] :
              co \in CornerValues, ro \in RoundedValues,
              tl \in AttrValues.roundedTl}
    \cup {[NoInstance EXCEPT !.tag = "cf-button", !.style = st, !.bg = b,
                             !.color = c, !.size = sz] :
              st \in StyleValues, b \in AttrValues.bg \cup {""},
              c \in AttrValues.color, sz \in AttrValues.size \ {"constructor"}}
    \cup {[NoInstance EXCEPT !.tag = "cf-icon", !.size = sz] :
              sz \in (AttrValues.size \ {"constructor"}) \cup {"lg", "48px"}}
    \cup {[NoInstance EXCEPT !.tag = "cf-progress-bar", !.text = tx,
                             !.textOutside = o] :
              tx \in AttrValues.text, o \in AttrValues.textOutside}

(***************************************************************************)
(* The running task.  A step is a record; op is one of                    *)
(*   "raf"      the callback connectedCallback registered for element el  *)
(*   "autoInit" the initialization callback (DOMContentLoaded listener or *)
(*              the animation-frame callback of the already-ready path)   *)
(*   "cascade"  injectCSS -> applyFontDataAttributes                      *)
(*   "pass"     initFunnelWind's tagOrder loop, at tag k, with the rest   *)
(*              snap of the querySelectorAll list being walked            *)
(***************************************************************************)
Step(op) == [op |-> op, el |-> 0, k |-> 0, snap |-> <<>>]
Raf(el) == [Step("raf") EXCEPT !.el = el]
AutoInitCallback == 0

Idle == stack = <<>>
Running(op) == stack # <<>> /\ Head(stack).op = op

\* The first tag after position k whose querySelectorAll list is not
\* empty (0: none); the forEach over an empty list does nothing.
RECURSIVE NextTag(_, _)
NextTag(ns, k) ==
    IF k >= Len(TagOrder) THEN 0
    ELSE IF QuerySelectorAll(ns, TagOrder[k + 1]) # <<>> THEN k + 1
    ELSE NextTag(ns, k + 1)

\* The pass positioned after tag k: the steps it still has, if any.
PassFrom(ns, k) ==
    LET k2 == NextTag(ns, k)
    IN  IF k2 = 0 THEN <<>>
        ELSE << [Step("pass") EXCEPT
                   !.k = k2, !.snap = QuerySelectorAll(ns, TagOrder[k2])] >>

\* initFunnelWind() about to start.
StartPass == [Step("pass") EXCEPT !.k = 0]

\* JSON.parse of the embedded payloads that parse but are partial or
\* wrongly shaped: the literal null; an object with the palette and the
\* paint themes only; a paint theme without its color fields; a shadows
\* catalog that is an object; a borders catalog that is a string.
Shaped ==
    [p \in {"null", "missingKeys", "themeWithoutFields", "catalogObject",
            "catalogString"} |->
        CASE p = "null" -> NoData
          [] p = "missingKeys" ->
                [Styleguide EXCEPT !.shadows = <<>>, !.borders = <<>>,
                                   !.corners = <<>>, !.buttons = <<>>,
                                   !.typography = <<>>]
          [] p = "themeWithoutFields" ->
                [Styleguide EXCEPT
                    !.paintThemes =
                        << [id |-> "t1", headlineColorId |-> NoAttr,
                            subheadlineColorId |-> NoAttr,
                            contentColorId |-> NoAttr,
                            iconColorId |-> NoAttr] >>]
          [] p = "catalogObject" ->
                [Styleguide EXCEPT !.shadows = <<>>,
                                   !.objectCatalogs = {"shadows"}]
          [] p = "catalogString" ->
                [Styleguide EXCEPT !.borders = <<>>,
                                   !.stringCatalogs = {"borders"}]]

\* The init that loads a styleguide whatever the embedded script holds.
InitLoadsAnyway(data, given) == Styleguide

\* styleguideManager.init(styleguideData): the store after it, and whether
\* it went on to injectCSS().
InitData(data, given) ==
    IF given THEN Styleguide
    ELSE IF embedded = "valid" THEN Styleguide
    ELSE IF embedded \in DOMAIN Shaped THEN Shaped[embedded]
    ELSE data
InitInjects(data, given) ==
    IF given THEN TRUE
    ELSE IF embedded = "malformed" THEN FALSE
    ELSE ~InitData(data, given).isNull

\* The steps of: styleguideManager.init(..); initFunnelWind();
InitSteps(data, given) ==
    (IF InitInjects(data, given) THEN <<Step("cascade")>> ELSE <<>>)
        \o <<StartPass>>

(***************************************************************************)
(* Initial states: right after the script has run.                        *)
(***************************************************************************)
\* With the document still loading, the body is parsed after the script.
\* With the document already parsed, each customElements.define upgrades
\* the elements of its tag in document order, each connectedCallback
\* registers its animation-frame callback, and the script registers the
\* initialization callback last.
ReadyDom(src) ==
    [i \in 1..Len(src) |->
        NewElement(src[i], i, src[i].par, src[i].kind \in Registered)]

\* The callbacks the define loop registers, from entry k of the table on.
RECURSIVE DefineAll(_, _)
DefineAll(ns, k) ==
    IF k > Len(Elements) THEN <<>>
    ELSE QuerySelectorAll(ns, Elements[k]) \o DefineAll(ns, k + 1)

Init ==
    /\ doc \in 1..Len(Docs)
    /\ mode \in {"loading", "ready"}
    /\ embedded \in {"none", "valid", "malformed"}
    /\ nodes = IF mode = "ready" THEN ReadyDom(Source) ELSE <<>>
    /\ srcNode = IF mode = "ready" THEN [i \in 1..Len(Source) |-> i] ELSE <<>>
    /\ pending =
         IF mode = "ready"
         THEN DefineAll(ReadyDom(Source), 1) \o <<AutoInitCallback>>
         ELSE <<>>
    /\ stack = <<>>
    /\ dclFired = FALSE
    /\ sgData = NoData
    /\ baData = "null"
    /\ apiCalls = 0
    /\ inst = NoInstance
    /\ styled = NotRendered
    /\ passDone = FALSE

(***************************************************************************)
(* The environment: parser, animation frames, DOMContentLoaded, the page's *)
(* own calls of the FunnelWind API.                                        *)
(***************************************************************************)
ParseDone == Len(srcNode) = Len(Source)

\* The parser inserts the next element of the markup under the node it
\* created for the parent; connectedCallback registers the render.
ParseElement ==
    /\ Idle
    /\ mode = "loading"
    /\ ~ParseDone
    /\ LET i == Len(srcNode) + 1
           src == Source[i]
           parent == IF src.par = 0 THEN Body ELSE srcNode[src.par]
           connected == parent = Body \/ InDocument(nodes, parent)
           id == Len(nodes) + 1
       IN  /\ nodes' = Append(nodes,
                          NewElement(src, i, parent, src.kind \in Registered))
           /\ srcNode' = Append(srcNode, id)
           /\ pending' = IF connected /\ src.kind \in Registered
                         THEN Append(pending, id) ELSE pending
    /\ passDone' = FALSE
    /\ UNCHANGED <<doc, mode, embedded, stack, dclFired, sgData, baData,
                   apiCalls, inst, styled>>

\* An animation frame: the callbacks registered so far run in order.
AnimationFrame ==
    /\ Idle
    /\ pending # <<>>
    /\ stack' = [k \in 1..Len(pending) |->
                    IF pending[k] = AutoInitCallback
                    THEN Step("autoInit") ELSE Raf(pending[k])]
    /\ pending' = <<>>
    /\ UNCHANGED <<doc, mode, embedded, nodes, srcNode, dclFired, sgData,
                   baData, apiCalls,
                   inst, styled, passDone>>

\* The DOMContentLoaded listener: styleguideManager.init();
\* brandAssetsManager.init(); initFunnelWind();
DOMContentLoaded ==
    /\ Idle
    /\ mode = "loading"
    /\ ParseDone
    /\ ~dclFired
    /\ dclFired' = TRUE
    /\ sgData' = InitData(sgData, FALSE)
    /\ stack' = InitSteps(sgData, FALSE)
    /\ UNCHANGED <<doc, mode, embedded, nodes, srcNode, pending, baData,
                   apiCalls,
                   inst, styled, passDone>>

\* FunnelWind.init()
ApiInit ==
    /\ Idle
    /\ apiCalls < MaxApiCalls
    /\ apiCalls' = apiCalls + 1
    /\ stack' = <<StartPass>>
    /\ UNCHANGED <<doc, mode, embedded, nodes, srcNode, pending, dclFired,
                   sgData, baData,
                   inst, styled, passDone>>

\* FunnelWind.initStyleguide(data)
ApiInitStyleguide ==
    /\ Idle
    /\ apiCalls < MaxApiCalls
    /\ apiCalls' = apiCalls + 1
    /\ sgData' = InitData(sgData, TRUE)
    /\ stack' = InitSteps(sgData, TRUE)
    /\ UNCHANGED <<doc, mode, embedded, nodes, srcNode, pending, dclFired,
                   baData,
                   inst, styled, passDone>>

\* FunnelWind.initBrandAssets(data)
ApiInitBrandAssets ==
    /\ Idle
    /\ apiCalls < MaxApiCalls
    /\ apiCalls' = apiCalls + 1
    /\ baData' = "data"
    /\ stack' = <<StartPass>>
    /\ UNCHANGED <<doc, mode, embedded, nodes, srcNode, pending, dclFired,
                   sgData,
                   inst, styled, passDone>>

(***************************************************************************)
(* The steps of the running task.                                          *)
(***************************************************************************)
\* A callback that never renders.
RafNeverRenders(ns, el) == FALSE

\* The guard of the animation-frame callback: if (this.parentNode)
RafRenders(ns, el) == ns[el].parent # NoParent

\* The guard of the pass: if (el.render && !el._rendered)
PassRenders(ns, el) == ns[el].up /\ ~ns[el].flag

\* requestAnimationFrame(() => { if (this.parentNode) { this.render();
\* this._rendered = true; } })
RafCallback ==
    /\ Running("raf")
    /\ LET el == Head(stack).el
           r == RenderElement(nodes, el)
       IN  IF RafRenders(nodes, el)
           THEN /\ nodes' = r.dom
                /\ pending' = pending \o r.connected
                /\ passDone' = FALSE
           ELSE UNCHANGED <<nodes, pending, passDone>>
    /\ stack' = Tail(stack)
    /\ UNCHANGED <<doc, mode, embedded, srcNode, dclFired, sgData, baData,
                   apiCalls, inst, styled>>

\* The initialization callback of the already-ready path.
AutoInit ==
    /\ Running("autoInit")
    /\ sgData' = InitData(sgData, FALSE)
    /\ stack' = InitSteps(sgData, FALSE) \o Tail(stack)
    /\ UNCHANGED <<doc, mode, embedded, nodes, srcNode, pending, dclFired,
                   baData, apiCalls,
                   inst, styled, passDone>>

\* injectCSS(): ... this.applyFontDataAttributes();
Cascade ==
    /\ Running("cascade")
    /\ nodes' = ApplyFontDataAttributes(nodes, sgData)
    /\ stack' = Tail(stack)
    /\ UNCHANGED <<doc, mode, embedded, srcNode, pending, dclFired, sgData,
                   baData, apiCalls, inst, styled, passDone>>

\* initFunnelWind() begins: tagOrder.forEach reaches its first tag.
PassBegin ==
    /\ Running("pass")
    /\ Head(stack).k = 0
    /\ stack' = PassFrom(nodes, 0) \o Tail(stack)
    /\ passDone' = (passDone \/ PassFrom(nodes, 0) = <<>>)
    /\ UNCHANGED <<doc, mode, embedded, nodes, srcNode, pending, dclFired,
                   sgData, baData, apiCalls, inst, styled>>

\* One element of the list: if (el.render && !el._rendered) { el.render();
\* el._rendered = true; } -- and, at the end of the list, the next tag.
PassElement ==
    /\ Running("pass")
    /\ Head(stack).k > 0
    /\ LET p == Head(stack)
           el == Head(p.snap)
           r == RenderElement(nodes, el)
           does == PassRenders(nodes, el)
           dom == IF does THEN r.dom ELSE nodes
           rest == Tail(p.snap)
       IN  /\ nodes' = dom
           /\ pending' = IF does THEN pending \o r.connected ELSE pending
           /\ stack' = (IF rest # <<>>
                        THEN <<[p EXCEPT !.snap = rest]>>
                        ELSE PassFrom(dom, p.k)) \o Tail(stack)
           /\ passDone' = IF rest = <<>> /\ PassFrom(dom, p.k) = <<>>
                          THEN TRUE
                          ELSE IF does THEN FALSE ELSE passDone
    /\ UNCHANGED <<doc, mode, embedded, srcNode, dclFired, sgData, baData,
                   apiCalls, inst, styled>>

Next ==
    \/ ParseElement
    \/ AnimationFrame
    \/ DOMContentLoaded
    \/ ApiInit
    \/ ApiInitStyleguide
    \/ ApiInitBrandAssets
    \/ RafCallback
    \/ AutoInit
    \/ Cascade
    \/ PassBegin
    \/ PassElement

Spec == Init /\ [][Next]_vars

\* A step of the task at the head of the stack: the browser runs a task it
\* has started to completion, callback by callback.
TaskStep ==
    RafCallback \/ AutoInit \/ Cascade \/ PassBegin \/ PassElement

\* The scheduler under fair scheduling: the browser parses the document to
\* its end, dispatches DOMContentLoaded, fires an animation frame while
\* callbacks are registered, and runs every task it starts to completion.
\* The page's calls of the FunnelWind API may or may not come.
\* The last conjunct is WF_vars(TaskStep) written by its definition,
\* []<>~ENABLED <<TaskStep>>_vars \/ []<><<TaskStep>>_vars: a task step is
\* enabled exactly when the stack is not empty, and each one changes it.
Fairness ==
    /\ WF_vars(ParseElement)
    /\ WF_vars(DOMContentLoaded)
    /\ WF_vars(AnimationFrame)
    /\ ([]<>Idle \/ []<><<TaskStep>>_vars)

SpecLive == Init /\ [][Next]_vars /\ Fairness


(***************************************************************************)
(* The style assembler as a specification: an instance with attribute     *)
(* values from the sets above is rendered once, with or without a loaded  *)
(* styleguide.                                                             *)
(***************************************************************************)
InitStyle ==
    /\ doc = 1
    /\ mode = "ready"
    /\ embedded = "none"
    /\ nodes = <<>>
    /\ srcNode = <<>>
    /\ pending = <<>>
    /\ stack = <<>>
    /\ dclFired = TRUE
    /\ baData = "null"
    /\ apiCalls = 0
    /\ sgData \in {NoData} \cup Styleguides
    /\ inst \in StyledInstances
    /\ styled = NotRendered
    /\ passDone = FALSE

\* What a render() of the style assembler leaves alone.
styleFrame == <<doc, mode, embedded, nodes, srcNode, pending, stack,
                dclFired, sgData, baData, apiCalls, inst, passDone>>

\* render() of a <cf-section>
RenderSection ==
    /\ inst.tag = "cf-section"
    /\ ~styled.rendered
    /\ styled' = CFSectionRender(inst, sgData)
    /\ UNCHANGED styleFrame

\* render() of a <cf-row>
RenderRow ==
    /\ inst.tag = "cf-row"
    /\ ~styled.rendered
    /\ styled' = CFRowRender(inst, sgData)
    /\ UNCHANGED styleFrame

\* render() of a <cf-col>
RenderCol ==
    /\ inst.tag = "cf-col"
    /\ ~styled.rendered
    /\ styled' = CFColRender(inst, sgData)
    /\ UNCHANGED styleFrame

\* render() of a <cf-flex>
RenderFlex ==
    /\ inst.tag = "cf-flex"
    /\ ~styled.rendered
    /\ styled' = CFFlexRender(inst, sgData)
    /\ UNCHANGED styleFrame

\* render() of a <cf-image>
RenderImage ==
    /\ inst.tag = "cf-image"
    /\ ~styled.rendered
    /\ styled' = CFImageRender(inst, sgData)
    /\ UNCHANGED styleFrame

\* render() of a <cf-video>
RenderVideo ==
    /\ inst.tag = "cf-video"
    /\ ~styled.rendered
    /\ styled' = CFVideoRender(inst, sgData)
    /\ UNCHANGED styleFrame

\* render() of a <cf-popup>
RenderPopup ==
    /\ inst.tag = "cf-popup"
    /\ ~styled.rendered
    /\ styled' = CFPopupRender(inst, sgData)
    /\ UNCHANGED styleFrame

\* render() of a <cf-divider>
RenderDivider ==
    /\ inst.tag = "cf-divider"
    /\ ~styled.rendered
    /\ styled' = CFDividerRender(inst, sgData)
    /\ UNCHANGED styleFrame

\* render() of a <cf-input>
RenderInput ==
    /\ inst.tag = "cf-input"
    /\ ~styled.rendered
    /\ styled' = CFInputRender(inst, sgData)
    /\ UNCHANGED styleFrame

\* render() of a <cf-progress-bar>
RenderProgressBar ==
    /\ inst.tag = "cf-progress-bar"
    /\ ~styled.rendered
    /\ styled' = CFProgressBarRender(inst, sgData)
    /\ UNCHANGED styleFrame

\* render() of a <cf-video-popup>
RenderVideoPopup ==
    /\ inst.tag = "cf-video-popup"
    /\ ~styled.rendered
    /\ styled' = CFVideoPopupRender(inst, sgData)
    /\ UNCHANGED styleFrame

\* render() of a <cf-button>
RenderButton ==
    /\ inst.tag = "cf-button"
    /\ ~styled.rendered
    /\ styled' = CFButtonRender(inst, sgData)
    /\ UNCHANGED styleFrame

\* render() of a <cf-headline>
RenderHeadline ==
    /\ inst.tag = "cf-headline"
    /\ ~styled.rendered
    /\ styled' = CFHeadlineRender(inst, sgData)
    /\ UNCHANGED styleFrame

\* render() of a <cf-subheadline>
RenderSubheadline ==
    /\ inst.tag = "cf-subheadline"
    /\ ~styled.rendered
    /\ styled' = CFSubheadlineRender(inst, sgData)
    /\ UNCHANGED styleFrame

\* render() of a <cf-paragraph>
RenderParagraph ==
    /\ inst.tag = "cf-paragraph"
    /\ ~styled.rendered
    /\ styled' = CFParagraphRender(inst, sgData)
    /\ UNCHANGED styleFrame

\* render() of a <cf-bullet-list>
RenderBulletList ==
    /\ inst.tag = "cf-bullet-list"
    /\ ~styled.rendered
    /\ styled' = CFBulletListRender(inst, sgData)
    /\ UNCHANGED styleFrame

\* render() of a <cf-icon>
RenderIcon ==
    /\ inst.tag = "cf-icon"
    /\ ~styled.rendered
    /\ styled' = CFIconRender(inst, sgData)
    /\ UNCHANGED styleFrame

NextStyle ==
    \/ RenderSection
    \/ RenderRow
    \/ RenderCol
    \/ RenderFlex
    \/ RenderImage
    \/ RenderVideo
    \/ RenderPopup
    \/ RenderDivider
    \/ RenderInput
    \/ RenderProgressBar
    \/ RenderVideoPopup
    \/ RenderButton
    \/ RenderHeadline
    \/ RenderSubheadline
    \/ RenderParagraph
    \/ RenderBulletList
    \/ RenderIcon

SpecStyle == InitStyle /\ [][NextStyle]_vars

(***************************************************************************)
(* Initialization with an embedded payload, followed by the structural     *)
(* pass over a page that holds the instance inst.  An exception is the     *)
(* step "throw": it discards the rest of the running callback.            *)
(***************************************************************************)
\* generateCSS() throws: a catalog with a truthy length is iterated with
\* forEach, which a string does not have.
GenerateCSSThrows(data) == data.stringCatalogs # {}

\* isStyleguideRef(value, type) throws: this.data.<catalog>?.some(..) calls
\* some on whatever the key holds, and only a list has it.
IsStyleguideRefThrows(data, value, type) ==
    /\ Truthy(value)
    /\ ~data.isNull
    /\ \E c \in data.stringCatalogs \cup data.objectCatalogs :
          c = (CASE type = "paint"  -> "paintThemes"
                 [] type = "shadow" -> "shadows"
                 [] type = "border" -> "borders"
                 [] type = "corner" -> "corners"
                 [] type = "button" -> "buttons"
                 [] OTHER           -> "none")

\* render() of the instance throws: one of the isStyleguideRef calls the
\* tag's render makes does.
RenderThrows(a, data) ==
    CASE a.tag \in {"cf-section", "cf-row", "cf-col", "cf-flex", "cf-image"} ->
            \/ IsStyleguideRefThrows(data, a.shadow, "shadow")
            \/ IsStyleguideRefThrows(data, a.border, "border")
            \/ IsStyleguideRefThrows(data, a.corner, "corner")
      [] a.tag = "cf-video" ->
            \/ IsStyleguideRefThrows(data, Attr(a.shadow, "lg"), "shadow")
            \/ IsStyleguideRefThrows(data, a.border, "border")
            \/ IsStyleguideRefThrows(data, a.corner, "corner")
      [] a.tag = "cf-button" ->
            IsStyleguideRefThrows(data, a.style, "button")
      [] OTHER -> FALSE

\* el.render(): the render of the instance's class.
RenderOf(a, data) ==
    CASE a.tag = "cf-section"      -> CFSectionRender(a, data)
      [] a.tag = "cf-row"          -> CFRowRender(a, data)
      [] a.tag = "cf-col"          -> CFColRender(a, data)
      [] a.tag = "cf-flex"         -> CFFlexRender(a, data)
      [] a.tag = "cf-image"        -> CFImageRender(a, data)
      [] a.tag = "cf-video"        -> CFVideoRender(a, data)
      [] a.tag = "cf-popup"        -> CFPopupRender(a, data)
      [] a.tag = "cf-divider"      -> CFDividerRender(a, data)
      [] a.tag = "cf-input"        -> CFInputRender(a, data)
      [] a.tag = "cf-progress-bar" -> CFProgressBarRender(a, data)
      [] a.tag = "cf-video-popup"  -> CFVideoPopupRender(a, data)
      [] a.tag = "cf-button"       -> CFButtonRender(a, data)
      [] a.tag = "cf-headline"     -> CFHeadlineRender(a, data)
      [] a.tag = "cf-subheadline"  -> CFSubheadlineRender(a, data)
      [] a.tag = "cf-paragraph"    -> CFParagraphRender(a, data)
      [] a.tag = "cf-bullet-list"  -> CFBulletListRender(a, data)
      [] a.tag = "cf-icon"         -> CFIconRender(a, data)

InitEmbedded ==
    /\ doc = 1
    /\ mode = "loading"
    /\ embedded \in {"none", "valid", "malformed"} \cup DOMAIN Shaped
    /\ nodes = <<>>
    /\ srcNode = <<>>
    /\ pending = <<>>
    /\ stack = <<Step("autoInit")>>
    /\ dclFired = FALSE
    /\ sgData = NoData
    /\ baData = "null"
    /\ apiCalls = 0
    /\ inst \in StyledInstances
    /\ styled = NotRendered
    /\ passDone = FALSE

\* The DOMContentLoaded listener: styleguideManager.init() parses the
\* embedded script and, with data, runs injectCSS(); then
\* brandAssetsManager.init() and initFunnelWind() follow.
Initialize ==
    /\ Running("autoInit")
    /\ dclFired' = TRUE
    /\ sgData' = InitData(sgData, FALSE)
    /\ stack' = IF InitInjects(sgData, FALSE) /\ GenerateCSSThrows(sgData')
                THEN <<Step("throw")>>
                ELSE <<StartPass>>
    /\ UNCHANGED <<doc, mode, embedded, nodes, srcNode, pending, baData,
                   apiCalls, inst, styled, passDone>>

\* initFunnelWind(): the pass reaches the instance and calls its render().
PassRender ==
    /\ Running("pass")
    /\ ~styled.rendered
    /\ IF RenderThrows(inst, sgData)
       THEN /\ stack' = <<Step("throw")>>
            /\ UNCHANGED <<styled, passDone>>
       ELSE /\ styled' = RenderOf(inst, sgData)
            /\ stack' = <<>>
            /\ passDone' = TRUE
    /\ UNCHANGED <<doc, mode, embedded, nodes, srcNode, pending, dclFired,
                   sgData, baData, apiCalls, inst>>

\* The exception leaves the listener: nothing catches it.
Uncaught ==
    /\ Running("throw")
    /\ stack' = <<>>
    /\ UNCHANGED <<doc, mode, embedded, nodes, srcNode, pending, dclFired,
                   sgData, baData, apiCalls, inst, styled, passDone>>

NextEmbedded ==
    \/ Initialize
    \/ PassRender
    \/ Uncaught

SpecEmbedded == InitEmbedded /\ [][NextEmbedded]_vars

(***************************************************************************)
(* Properties of the scheduler.                                            *)
(***************************************************************************)
\* The cf-* instances of registered tags that are in the document and have
\* not been rendered (a rendered instance has been replaced by its output).
Instances(ns) ==
    {i \in DOMAIN ns :
        ~ns[i].out /\ ns[i].kind \in Registered /\ InDocument(ns, i)}

\* The pass is about to call render() on element el.
PassAboutToRender(el) ==
    /\ Running("pass")
    /\ Head(stack).k > 0
    /\ el = Head(Head(stack).snap)
    /\ PassRenders(nodes, el)

\* An animation-frame callback is about to call render() on element el.
RafAboutToRender(el) ==
    /\ Running("raf")
    /\ el = Head(stack).el
    /\ RafRenders(nodes, el)

\* C1: during an initFunnelWind pass, when an instance of a kind is about
\* to be rendered, every instance of an earlier kind of the tag order that
\* is in the document has been rendered.
C1_PassFollowsKindOrder ==
    \A el \in DOMAIN nodes :
        PassAboutToRender(el) =>
            \A i \in Instances(nodes) :
                KindIdx(nodes[i].kind) >= Head(stack).k

\* C2: during an initFunnelWind pass, when an instance is about to be
\* rendered (its content captured), every cf-* descendant of it has
\* already been rendered, i.e. none of its descendants is still a cf-*
\* element of a registered tag.
C2_DescendantsRenderedAtCapture ==
    \A el \in DOMAIN nodes :
        PassAboutToRender(el) =>
            \A k \in 1..Len(GetContent(nodes, el)) :
                LET d == GetContent(nodes, el)[k]
                IN  nodes[d].out \/ nodes[d].kind \notin Registered

\* C3: no instance is rendered more than once, whatever passes and
\* animation-frame callbacks run, and an initFunnelWind that is repeated
\* after a completed pass leaves the rendered output unchanged: it finds
\* no instance in the document that it would render.
C3_RenderedOnceAndRepeatIdempotent ==
    /\ \A i \in DOMAIN nodes : nodes[i].renders <= 1
    /\ (Running("pass") /\ Head(stack).k = 0 /\ passDone) =>
           \A i \in DOMAIN nodes :
               ~(~nodes[i].out /\ InDocument(nodes, i) /\ PassRenders(nodes, i))

\* C4: the paint cascade runs only when the structural pass has completed
\* for every instance: no unrendered instance is in the document when
\* applyFontDataAttributes starts.
C4_CascadeAfterStructuralPass ==
    Running("cascade") => Instances(nodes) = {}

\* C5: in every execution, whoever renders (an animation-frame callback or
\* the pass), all instances of an earlier kind are rendered before any
\* instance of a later kind.
C5_KindOrderInEveryExecution ==
    \A el \in DOMAIN nodes :
        (PassAboutToRender(el) \/ RafAboutToRender(el)) =>
            \A i \in Instances(nodes) :
                KindIdx(nodes[i].kind) >= KindIdx(nodes[el].kind)

\* C6: no instance is rendered before the document structure is complete
\* (the parser has inserted every element of the markup).
C6_NoRenderBeforeStructureReady ==
    \A i \in DOMAIN nodes : nodes[i].renders > 0 => ParseDone

(***************************************************************************)
(* Properties of the paint cascade.                                        *)
(***************************************************************************)
\* The outputs carrying data-paint-colors above node i.
PaintAncestors(ns, i) ==
    {c \in DOMAIN ns :
        ns[c].out /\ ns[c].dPaintColors # NoAttr /\ IsDescendant(ns, i, c)}

\* The one of them every other one is above.
NearestPaint(ns, i) ==
    CHOOSE c \in PaintAncestors(ns, i) :
        \A c2 \in PaintAncestors(ns, i) \ {c} : IsDescendant(ns, c, c2)

\* The themes of the styleguide with the given id.
ThemesOf(data, id) ==
    {data.paintThemes[k] : k \in {j \in 1..Len(data.paintThemes) :
                                     data.paintThemes[j].id = id}}

\* The color a theme gives an element of a kind.
RoleColor(data, theme, kind) ==
    CASE kind = "cf-headline"    -> GetColorHex(data, theme.headlineColorId)
      [] kind = "cf-subheadline" -> GetColorHex(data, theme.subheadlineColorId)
      [] kind = "cf-paragraph"   -> GetColorHex(data, theme.contentColorId)
      [] kind = "cf-icon"        -> GetColorHex(data, theme.iconColorId)

\* C7: the cascade changes the color data of an element only on behalf of
\* the element's nearest ancestor carrying a paint id: that ancestor is a
\* container of the document whose id is a theme of the styleguide.  An
\* element nested in another paint container is left to that container,
\* and a wrapper without paint is transparent.
C7_OnlyNearestContainerPaints ==
    [][Running("cascade") =>
         \A i \in DOMAIN nodes :
             nodes'[i] # nodes[i] =>
                 /\ PaintAncestors(nodes, i) # {}
                 /\ InDocument(nodes, NearestPaint(nodes, i))
                 /\ ThemesOf(sgData,
                        nodes[NearestPaint(nodes, i)].dPaintColors) # {}]_vars

\* C7 (case): in document 5 the section of theme t1 has painted the bullet
\* list that is its direct paint descendant and left the icon inside the
\* nested paint row alone.
C7_Witness ==
    /\ doc = 5
    /\ \E b \in DOMAIN nodes :
          /\ nodes[b].out /\ nodes[b].kind = "cf-bullet-list"
          /\ InDocument(nodes, b)
          /\ PaintAncestors(nodes, b) # {}
          /\ nodes[b].dIconColor = "#444444"
          /\ \E i \in DOMAIN nodes :
                /\ nodes[i].out /\ nodes[i].kind = "cf-icon"
                /\ InDocument(nodes, i)
                /\ PaintAncestors(nodes, i) # {}
                /\ nodes[NearestPaint(nodes, i)].dPaintColors = "t9"
                /\ IsDescendant(nodes, i, NearestPaint(nodes, b))
                /\ nodes[i].dColor = NoAttr

\* The color data an explicit attribute value leaves on the output.
Kept(v) == IF v = "" THEN NoAttr ELSE v

\* C8: an element whose color attribute is present keeps the color data it
\* had right after rendering, whatever cascades run (likewise text-color
\* and icon-color of a bullet list).
C8_ExplicitColorSurvives ==
    \A i \in DOMAIN nodes :
        nodes[i].out =>
            /\ (nodes[i].kind \in TextKinds /\ nodes[i].color # NoAttr)
                  => nodes[i].dColor = Kept(nodes[i].color)
            /\ (nodes[i].kind = "cf-bullet-list" /\ nodes[i].textColor # NoAttr)
                  => nodes[i].dTextColor = Kept(nodes[i].textColor)
            /\ (nodes[i].kind = "cf-bullet-list" /\ nodes[i].iconColor # NoAttr)
                  => nodes[i].dIconColor = Kept(nodes[i].iconColor)

\* C9: when a cascade has run, every rendered headline, subheadline,
\* paragraph, icon and bullet list of the document that has no
\* explicit-color marker and whose nearest paint ancestor names a theme of
\* the styleguide carries that theme's color for its role.
C9_CascadeGivesNearestThemeColor ==
    [][Running("cascade") =>
         \A i \in DOMAIN nodes' :
             ( /\ nodes'[i].out
               /\ InDocument(nodes', i)
               /\ PaintAncestors(nodes', i) # {} ) =>
                 \A t \in ThemesOf(sgData,
                            nodes'[NearestPaint(nodes', i)].dPaintColors) :
                     /\ (nodes'[i].kind \in TextKinds
                             /\ ~nodes'[i].dColorExplicit)
                           => nodes'[i].dColor = RoleColor(sgData, t, nodes'[i].kind)
                     /\ (nodes'[i].kind = "cf-bullet-list"
                             /\ ~nodes'[i].dTextColorExplicit)
                           => nodes'[i].dTextColor =
                                  GetColorHex(sgData, t.contentColorId)
                     /\ (nodes'[i].kind = "cf-bullet-list"
                             /\ ~nodes'[i].dIconColorExplicit)
                           => nodes'[i].dIconColor =
                                  GetColorHex(sgData, t.iconColorId)]_vars

\* C9 (case): in document 4 the headline of the first section carries the
\* headline color of theme t1 and the subheadline of the second section,
\* below an unpainted flex wrapper, the subheadline color of theme t2.
C9_Witness ==
    /\ doc = 4
    /\ \E a, b \in DOMAIN nodes :
          /\ nodes[a].out /\ nodes[a].kind = "cf-headline"
          /\ InDocument(nodes, a)
          /\ PaintAncestors(nodes, a) # {}
          /\ nodes[NearestPaint(nodes, a)].dPaintColors = "t1"
          /\ nodes[a].dColor = "#111111"
          /\ nodes[b].out /\ nodes[b].kind = "cf-subheadline"
          /\ InDocument(nodes, b)
          /\ PaintAncestors(nodes, b) # {}
          /\ nodes[NearestPaint(nodes, b)].dPaintColors = "t2"
          /\ nodes[b].parent \in DOMAIN nodes
          /\ nodes[nodes[b].parent].dPaintColors = NoAttr
          /\ nodes[b].dColor = "#666666"
          /\ ~nodes[a].dColorExplicit /\ ~nodes[b].dColorExplicit

(***************************************************************************)
(* Properties of the style assembler.                                      *)
(***************************************************************************)
\* The ids of a catalog of the loaded styleguide.
CatalogIds(catalog) == {catalog[k].id : k \in 1..Len(catalog)}

\* The tags that accept the border and the corner attribute (every
\* modelled tag accepts shadow).
BorderTags == StyledTags \ {"cf-divider", "cf-button"}
CornerTags ==
    {"cf-section", "cf-row", "cf-col", "cf-flex", "cf-image", "cf-video"}

\* C10: on every tag that accepts the attribute, a shadow, border or corner
\* value, or a button style, that is an id of the loaded styleguide's
\* catalog for its category leaves no inline declaration for the property
\* in the output and is persisted as the data-style-guide-* attribute.
C10_StyleguideIdExclusive ==
    (styled.rendered /\ ~sgData.isNull) =>
        /\ inst.shadow \in CatalogIds(sgData.shadows) =>
              styled.boxShadow = NoAttr /\ styled.dShadow = inst.shadow
        /\ (inst.tag \in BorderTags
                /\ inst.border \in CatalogIds(sgData.borders)) =>
              /\ styled.borderWidth = NoAttr
              /\ styled.borderStyle = NoAttr
              /\ styled.dBorder = inst.border
        /\ (inst.tag \in CornerTags
                /\ inst.corner \in CatalogIds(sgData.corners)) =>
              styled.borderRadius = NoAttr /\ styled.dCorner = inst.corner
        /\ (inst.tag = "cf-button"
                /\ inst.style \in CatalogIds(sgData.buttons)) =>
              /\ styled.backgroundColor = NoAttr
              /\ styled.borderWidth = NoAttr
              /\ styled.borderStyle = NoAttr
              /\ styled.boxShadow = NoAttr
              /\ styled.dButton = inst.style


(***************************************************************************)
(* Properties of the persisted data attributes and of the typography.      *)
(***************************************************************************)
\* C11: every persisted data-attribute of a rendered instance stores the
\* attribute value that was given, never a resolved value: data-size of the
\* text tags is the size attribute, data-gap of <cf-flex> the gap
\* attribute, data-popup-rounded of <cf-popup> and data-rounded of
\* <cf-image> the rounded attribute, data-src of <cf-image> the src
\* attribute.
C11_DataAttributeIsInput ==
    styled.rendered =>
        /\ (inst.tag \in TextTags /\ inst.size # NoAttr) =>
              styled.dSize = inst.size
        /\ (inst.tag = "cf-flex" /\ inst.gap # NoAttr) =>
              styled.dGap = inst.gap
        /\ (inst.tag = "cf-popup" /\ inst.rounded # NoAttr) =>
              styled.dPopupRounded = inst.rounded
        /\ (inst.tag = "cf-image" /\ inst.src # NoAttr) =>
              styled.dSrc = inst.src
        /\ (inst.tag = "cf-image" /\ inst.rounded # NoAttr) =>
              styled.dRounded = inst.rounded


\* resolve(k, T) is the lookup with raw passthrough: null for an absent or
\* empty key, T[k] for a key of the table, the key itself otherwise.
IsLookup(k, T) ==
    Resolve(k, T) = IF k \in {NoAttr, ""} THEN NoAttr
                    ELSE IF k \in DOMAIN T THEN T[k] ELSE k

\* C12: resolve(key, table) is total with raw passthrough: at every call a
\* render makes of it (size in FONT_SIZES, shadow in SHADOWS, rounded in
\* RADIUS, border in BORDER_WIDTHS) the result is the table's entry when
\* the key is a key of the table, the key itself otherwise, and the null
\* sentinel for an absent or empty key.
C12_ResolveIsLookupWithPassthrough ==
    styled.rendered =>
        /\ IsLookup(inst.size, FONT_SIZES)
        /\ IsLookup(inst.shadow, SHADOWS)
        /\ IsLookup(inst.rounded, RADIUS)
        /\ IsLookup(inst.border, BORDER_WIDTHS)


\* The scale table a text tag asks of the typescale.
ScaleOf(tag) ==
    CASE tag = "cf-headline"    -> "headline"
      [] tag = "cf-subheadline" -> "subheadline"
      [] OTHER                  -> "paragraph"

\* C13: the font-size of a rendered headline, subheadline, paragraph or
\* bullet-list is the typescale value when a styleguide is loaded and the
\* size is a preset of the tag's scale table, otherwise the FONT_SIZES
\* value when the size is a preset key, otherwise the size as written.
C13_FontSizeThreeTiers ==
    (styled.rendered /\ inst.tag \in TextTags) =>
        LET size == styled.dSize
            typescale == GetTypescale(sgData)
        IN  styled.fontSize =
                IF typescale # <<>>
                     /\ size \in DOMAIN typescale[1][ScaleOf(inst.tag)]
                THEN typescale[1][ScaleOf(inst.tag)][size]
                ELSE IF size \in DOMAIN FONT_SIZES THEN FONT_SIZES[size]
                ELSE size


\* The catalog of the loaded styleguide a category names.
CatalogOf(data, type) ==
    CASE type = "paint"  -> data.paintThemes
      [] type = "shadow" -> data.shadows
      [] type = "border" -> data.borders
      [] type = "corner" -> data.corners
      [] type = "button" -> data.buttons

Categories == {"paint", "shadow", "border", "corner", "button"}

\* C14: isStyleguideRef(value, category) is true exactly when a styleguide
\* is loaded and the value is the id of an entry of the catalog the
\* category names, whatever the other catalogs hold; this is checked for
\* every attribute value of the rendered instance against every category.
C14_RefIffIdOfNamedCatalog ==
    styled.rendered =>
        \A v \in {inst.shadow, inst.border, inst.corner, inst.style,
                  inst.paint} :
            \A c \in Categories :
                IsStyleguideRef(sgData, v, c) <=>
                    /\ ~sgData.isNull
                    /\ v \in CatalogIds(CatalogOf(sgData, c))

\* A border that is an id of the shadows catalog only has been rendered as
\* an inline border.
C14_Witness ==
    /\ styled.rendered
    /\ inst.tag = "cf-section"
    /\ inst.border = "style1"
    /\ IsStyleguideRef(sgData, inst.border, "shadow")
    /\ ~IsStyleguideRef(sgData, inst.border, "border")
    /\ styled.dBorder = NoAttr
    /\ styled.borderWidth = "style1"


(***************************************************************************)
(* Properties of the initialization.                                      *)
(***************************************************************************)
\* C15: with a malformed embedded styleguide JSON, init throws nothing, the
\* store stays in the no-styleguide state, and the instance the pass
\* renders has every property resolved with the preset tables only (a
\* catalog id is written as a raw value, the font-size comes from
\* FONT_SIZES) and carries no data-style-guide-* attribute.
C15_MalformedJsonLeavesPresetsOnly ==
    embedded = "malformed" =>
        /\ ~Running("throw")
        /\ sgData = NoData
        /\ (Idle => styled.rendered)
        /\ styled.rendered =>
              /\ styled.dShadow = NoAttr
              /\ styled.dBorder = NoAttr
              /\ styled.dCorner = NoAttr
              /\ styled.dButton = NoAttr
              /\ inst.tag \in ContainerTags \cup {"cf-image"} =>
                    /\ Truthy(inst.shadow) =>
                          styled.boxShadow =
                              OrElse(Resolve(inst.shadow, SHADOWS), inst.shadow)
                    /\ Truthy(inst.border) =>
                          styled.borderWidth =
                              OrElse(Resolve(inst.border, BORDER_WIDTHS),
                                     inst.border)
              /\ inst.tag \in TextTags =>
                    styled.fontSize =
                        OrElse(Resolve(styled.dSize, FONT_SIZES), styled.dSize)

\* After the malformed payload a section whose shadow names a catalog id
\* has been rendered with the id as the raw box-shadow value.
C15_Witness ==
    /\ embedded = "malformed"
    /\ dclFired
    /\ styled.rendered
    /\ inst.tag = "cf-section"
    /\ inst.shadow = "style1"
    /\ styled.boxShadow = "style1"
    /\ styled.dShadow = NoAttr

\* C16: no configuration aborts the render of a page: whatever the
\* embedded payload (unparsable, or parsable but partial or wrongly
\* shaped), nothing throws, and when the initialization callback is over
\* the structural pass has rendered the instance.
C16_NoPayloadAbortsTheRender ==
    /\ ~Running("throw")
    /\ Idle => styled.rendered


(***************************************************************************)
(* Properties of the palette lookup.                                       *)
(***************************************************************************)
\* The color ids a paint theme names.
RoleIds(theme) ==
    {theme.headlineColorId, theme.subheadlineColorId, theme.contentColorId,
     theme.iconColorId}

\* The color id a theme names for the role of a kind of element.
RoleId(theme, kind) ==
    CASE kind = "cf-headline"    -> theme.headlineColorId
      [] kind = "cf-subheadline" -> theme.subheadlineColorId
      [] kind = "cf-paragraph"   -> theme.contentColorId
      [] kind = "cf-icon"        -> theme.iconColorId

\* C17: getColorHex gives the hex of the palette entry with the given id and
\* #000000 when no entry has it or there is no palette; so, when a cascade
\* runs, an element
\* without explicit color whose nearest paint theme names a color id that
\* is not in the palette carries #000000 for its role.
C17_MissingColorIsBlack ==
    [][Running("cascade") =>
         /\ \A t \in 1..Len(sgData.paintThemes) :
               \A id \in RoleIds(sgData.paintThemes[t]) :
                   /\ \A k \in 1..Len(sgData.colors) :
                         sgData.colors[k].id = id =>
                             GetColorHex(sgData, id) = sgData.colors[k].hex
                   /\ id \notin CatalogIds(sgData.colors) =>
                         GetColorHex(sgData, id) = "#000000"
                   /\ GetColorHex([sgData EXCEPT !.colors = <<>>], id)
                         = "#000000"                 \* no palette
         /\ \A i \in DOMAIN nodes' :
               ( /\ nodes'[i].out
                 /\ nodes'[i].kind \in TextKinds
                 /\ ~nodes'[i].dColorExplicit
                 /\ InDocument(nodes', i)
                 /\ PaintAncestors(nodes', i) # {} ) =>
                   \A t \in ThemesOf(sgData,
                              nodes'[NearestPaint(nodes', i)].dPaintColors) :
                       RoleId(t, nodes'[i].kind) \notin CatalogIds(sgData.colors)
                           => nodes'[i].dColor = "#000000"]_vars

\* C17 (case): in document 4 the icon below the section of theme t2, whose
\* icon color id c0 is not in the palette, carries #000000.
C17_Witness ==
    /\ doc = 4
    /\ ~sgData.isNull
    /\ \E i \in DOMAIN nodes :
          /\ nodes[i].out /\ nodes[i].kind = "cf-icon"
          /\ InDocument(nodes, i)
          /\ PaintAncestors(nodes, i) # {}
          /\ nodes[NearestPaint(nodes, i)].dPaintColors = "t2"
          /\ "c0" \notin CatalogIds(sgData.colors)
          /\ nodes[i].dColor = "#000000"


(***************************************************************************)
(* Properties of the typescale.                                            *)
(***************************************************************************)
\* baseSize and scaleRatio of the loaded typography, with their defaults.
BaseSize(data) ==
    IF data.typography[1].baseSize = <<>> THEN 16
    ELSE data.typography[1].baseSize[1]
ScaleRatio(data) ==
    IF data.typography[1].scaleRatio = <<>> THEN <<5, 4>>
    ELSE data.typography[1].scaleRatio

\* |a - b|
Dist(a, b) == IF a >= b THEN a - b ELSE b - a

\* v is a nearest integer to b * (num/den)^n, for n in -3..8.
IsRounded(v, b, r, n) ==
    IF n >= 0
    THEN 2 * Dist(v * Pow(r[2], n), b * Pow(r[1], n)) <= Pow(r[2], n)
    ELSE 2 * Dist(v * Pow(r[1], 0 - n), b * Pow(r[2], 0 - n))
             <= Pow(r[1], 0 - n)

\* C18: with baseSize 16 and scaleRatio 1.25 the typescale gives headline
\* xl = 39px, paragraph m = 16px and subheadline m = 20px; each step of the
\* scale is baseSize * scaleRatio^n rounded to the nearest integer; and for
\* every size preset the headline value is a step n of the scale, the
\* subheadline value the step n - 1 and the paragraph value the step n - 2.
C18_TypescaleSteps ==
    (~sgData.isNull /\ sgData.typography # <<>>) =>
        LET typescale == GetTypescale(sgData)[1]
            b == BaseSize(sgData)
            r == ScaleRatio(sgData)
        IN  /\ (b = 16 /\ r = <<5, 4>>) =>
                  /\ typescale.headline["xl"] = "39px"
                  /\ typescale.paragraph["m"] = "16px"
                  /\ typescale.subheadline["m"] = "20px"
            /\ \A n \in -3..8 : IsRounded(ScaleStep(b, r, n), b, r, n)
            /\ \A k \in DOMAIN FONT_SIZES :
                  \E n \in 0..8 :
                      /\ typescale.headline[k] = Px(ScaleStep(b, r, n))
                      /\ typescale.subheadline[k] = Px(ScaleStep(b, r, n - 1))
                      /\ typescale.paragraph[k] = Px(ScaleStep(b, r, n - 2))

\* C18 (case): with baseSize 16 and scaleRatio 1.25 a headline of size xl
\* has been rendered with font-size 39px.
C18_Witness ==
    /\ styled.rendered
    /\ inst.tag = "cf-headline"
    /\ inst.size = "xl"
    /\ ~sgData.isNull /\ sgData.typography # <<>>
    /\ BaseSize(sgData) = 16 /\ ScaleRatio(sgData) = <<5, 4>>
    /\ styled.fontSize = "39px"


(***************************************************************************)
(* Properties of the container background and of the margins.              *)
(***************************************************************************)
\* C19 (as stated): whenever the paint attribute of a section, row, col or
\* flex is set, whatever its value, the rendered inline style has neither
\* background nor background-color from the instance's bg or gradient.
C19_PaintSetSuppressesBackground ==
    (styled.rendered /\ inst.tag \in ContainerTags /\ inst.paint # NoAttr) =>
        styled.background = NoAttr /\ styled.backgroundColor = NoAttr

\* C19 (amended): whenever the paint attribute of a section, row, col or
\* flex is set to a non-empty value, the rendered inline style has neither
\* background nor background-color, for every combination of bg and
\* gradient; with paint absent or empty, gradient (else bg) is emitted.
C19_PaintSuppressesBackground ==
    (styled.rendered /\ inst.tag \in ContainerTags) =>
        IF Truthy(inst.paint)
        THEN styled.background = NoAttr /\ styled.backgroundColor = NoAttr
        ELSE /\ Truthy(inst.gradient) =>
                  /\ styled.background = inst.gradient
                  /\ styled.backgroundColor = NoAttr
             /\ (~Truthy(inst.gradient) /\ Truthy(inst.bg)) =>
                  /\ styled.background = NoAttr
                  /\ styled.backgroundColor = inst.bg

\* C19 (case): a flex with paint, bg and gradient has been rendered without
\* background, with its data-paint-colors.
C19_Witness ==
    /\ styled.rendered
    /\ inst.tag = "cf-flex"
    /\ inst.paint = "t1"
    /\ Truthy(inst.bg) /\ Truthy(inst.gradient)
    /\ styled.background = NoAttr
    /\ styled.backgroundColor = NoAttr
    /\ styled.dPaintColors = "t1"


\* C20: no rendered inline style contains a margin-bottom declaration,
\* whatever the tag and its attributes.
C20_NoMarginBottom ==
    styled.rendered => styled.marginBottom = NoAttr

(***************************************************************************)
(* Properties of the explicit colors.                                      *)
(***************************************************************************)
\* C21: on every rendered headline, subheadline, paragraph and icon the
\* inline color with the !important marker and the data-color-explicit
\* marker are there exactly when the color attribute was present on the
\* instance, and on every rendered bullet list likewise for text-color and
\* icon-color; with the attribute absent there is neither.
C21_ExplicitIffAttributePresent ==
    \A i \in DOMAIN nodes :
        nodes[i].out =>
            /\ nodes[i].kind \in TextKinds =>
                  /\ nodes[i].dColorExplicit <=> nodes[i].color # NoAttr
                  /\ nodes[i].sColor # NoAttr <=> nodes[i].color # NoAttr
                  /\ nodes[i].sColor # NoAttr =>
                        nodes[i].sColor = Important(nodes[i].color)
            /\ nodes[i].kind = "cf-bullet-list" =>
                  /\ nodes[i].dTextColorExplicit <=> nodes[i].textColor # NoAttr
                  /\ nodes[i].sTextColor # NoAttr <=> nodes[i].textColor # NoAttr
                  /\ nodes[i].dIconColorExplicit <=> nodes[i].iconColor # NoAttr
                  /\ nodes[i].sIconColor # NoAttr <=> nodes[i].iconColor # NoAttr

(***************************************************************************)
(* Properties of the image's clipping layer.                               *)
(***************************************************************************)
\* The radius and the shadow an image asks for inline: a radius is not from
\* the catalog when the corner attribute is not an id of the corners
\* catalog and rounded or corner has a value; a shadow when it has a value
\* that is not an id of the shadows catalog.
NonCatalogRadius(a, data) ==
    /\ a.corner \notin CatalogIds(data.corners)
    /\ (Truthy(a.rounded) \/ Truthy(a.corner))
NonCatalogShadow(a, data) ==
    Truthy(a.shadow) /\ a.shadow \notin CatalogIds(data.shadows)

\* C22: a rendered <cf-image> has the clipping layer around its img if and
\* only if a non-catalog radius and a non-catalog shadow are both present;
\* with the layer, border-radius and box-shadow are declared on the layer
\* and not on the img; without it nothing is declared on a layer and the
\* img carries the border-radius, or the box-shadow, that is present.
C22_ImageWrapperIffRadiusAndShadow ==
    (styled.rendered /\ inst.tag = "cf-image") =>
        LET radius == NonCatalogRadius(inst, sgData)
            shadow == NonCatalogShadow(inst, sgData)
        IN  /\ styled.innerContainer <=> (radius /\ shadow)
            /\ styled.innerContainer =>
                  /\ styled.innerBorderRadius # NoAttr
                  /\ styled.innerBoxShadow # NoAttr
                  /\ styled.imgBorderRadius = NoAttr
                  /\ styled.imgBoxShadow = NoAttr
            /\ ~styled.innerContainer =>
                  /\ styled.innerBorderRadius = NoAttr
                  /\ styled.innerBoxShadow = NoAttr
                  /\ (styled.imgBorderRadius # NoAttr) <=> radius
                  /\ (styled.imgBoxShadow # NoAttr) <=> shadow

\* C22 (case): an image with rounded xl and the preset shadow lg has been
\* rendered with the layer carrying both declarations, and the img none.
C22_Witness ==
    /\ styled.rendered
    /\ inst.tag = "cf-image"
    /\ inst.rounded = "xl" /\ inst.shadow = "lg"
    /\ styled.innerContainer
    /\ styled.innerBorderRadius = "20px"
    /\ styled.innerBoxShadow = SHADOWS["lg"]
    /\ styled.imgBorderRadius = NoAttr /\ styled.imgBoxShadow = NoAttr

(***************************************************************************)
(* Properties of the gap of <cf-flex>.                                     *)
(***************************************************************************)
\* The lengths in px that are tried, as value / 16 in em.
NormalizedGap ==
    [g \in {"16px", "24px"} |-> IF g = "16px" THEN "1em" ELSE "1.5em"]

\* C23: the gap a rendered <cf-flex> emits is (value / 16) em for a gap
\* given as a length in px, the default 1.5em for an unset (absent or
\* empty) gap, and the gap as written for every other value; so it is
\* never a value that is neither the normalized length nor the input.
C23_GapNormalizedOrVerbatim ==
    (styled.rendered /\ inst.tag = "cf-flex") =>
        styled.gap =
            IF ~Truthy(inst.gap) THEN "1.5em"
            ELSE IF inst.gap \in DOMAIN NormalizedGap
                 THEN NormalizedGap[inst.gap]
                 ELSE inst.gap

(***************************************************************************)
(* Properties of the corner against an inline radius.                      *)
(***************************************************************************)
\* C24: on section, row, col, flex, image and video, when the corner
\* attribute is a corner id of the loaded styleguide and an inline radius
\* attribute (rounded, or a per-corner rounded-* attribute) is also given,
\* the rendered inline style has no border-radius declaration of any kind
\* (neither border-radius nor a per-corner radius, on any layer) and the
\* corner id is persisted as data-style-guide-corner.
C24_CatalogCornerDropsInlineRadius ==
    ( /\ styled.rendered
      /\ inst.tag \in CornerTags
      /\ inst.corner \in CatalogIds(sgData.corners)
      /\ (Truthy(inst.rounded) \/ Truthy(inst.roundedTl)) ) =>
        /\ styled.borderRadius = NoAttr
        /\ styled.imgBorderRadius = NoAttr
        /\ styled.innerBorderRadius = NoAttr
        /\ styled.borderTopLeftRadius = NoAttr
        /\ styled.dCorner = inst.corner

(***************************************************************************)
(* Properties of the button.                                               *)
(***************************************************************************)
\* The button has no inline declaration from bg, color, rounded, shadow or
\* the border.
NoInlineButtonStyle ==
    /\ styled.backgroundColor = NoAttr
    /\ styled.color = NoAttr
    /\ styled.borderRadius = NoAttr
    /\ styled.borderStyle = NoAttr
    /\ styled.borderWidth = NoAttr
    /\ styled.borderColor = NoAttr
    /\ styled.boxShadow = NoAttr

\* The values of bg, color, rounded and shadow (or their defaults) are
\* persisted as data-bg, data-color, data-rounded and data-shadow.
ButtonValuesPersisted ==
    /\ Truthy(inst.bg) => styled.dBg = inst.bg
    /\ inst.bg = NoAttr => styled.dBg = "#3b82f6"
    /\ Truthy(inst.color) => styled.dColor = inst.color
    /\ inst.color = NoAttr => styled.dColor = "#ffffff"
    /\ Truthy(inst.rounded) => styled.dRounded = inst.rounded
    /\ Truthy(inst.shadow) => styled.dataShadow = inst.shadow

ThreeTiers(data, size, elementType) ==
    LET typescale == GetTypescale(data)
    IN  IF typescale # <<>> /\ size \in DOMAIN typescale[1][elementType]
        THEN typescale[1][elementType][size]
        ELSE IF size \in DOMAIN FONT_SIZES THEN FONT_SIZES[size]
        ELSE size

\* C26: the font-size of a rendered <cf-button> and of a rendered <cf-icon>
\* is its size resolved by the three tiers (typescale of some element
\* type, then FONT_SIZES, then the raw value), so a size that is a preset
\* key such as lg or xl is never emitted as the font-size unresolved.
C26_ButtonAndIconSizeThreeTiers ==
    (styled.rendered /\ inst.tag \in {"cf-button", "cf-icon"}
        /\ Truthy(inst.size)) =>
        /\ \E elementType \in {"headline", "subheadline", "paragraph"} :
              styled.fontSize = ThreeTiers(sgData, inst.size, elementType)
        /\ inst.size \in DOMAIN FONT_SIZES => styled.fontSize # inst.size

(***************************************************************************)
(* Properties of the animation-frame renders and of the initialization.    *)
(***************************************************************************)
\* C27: an animation-frame callback registered by connectedCallback calls
\* render() only on an element that is still in the document: not on an
\* element that was itself replaced, and not on an element whose ancestor
\* has replaced itself through outerHTML.
C27_RafRendersOnlyInDocument ==
    \A el \in DOMAIN nodes :
        RafAboutToRender(el) => InDocument(nodes, el)

\* The initialization callback has run: styleguideManager.init() and
\* brandAssetsManager.init() have been called by the DOMContentLoaded
\* listener or, with the document already parsed, by the animation-frame
\* callback the script registered.
StoresInitialized ==
    IF mode = "loading" THEN dclFired
    ELSE /\ \A k \in 1..Len(pending) : pending[k] # AutoInitCallback
         /\ \A k \in 1..Len(stack) : stack[k].op # "autoInit"

\* C28: no instance of the document is rendered before the stores have
\* been initialized: whenever an animation-frame callback or the pass is
\* about to call render(), the initialization callback has run, and with
\* an embedded styleguide the render finds its catalog ids (style1 of the
\* shadows catalog) to be references.
C28_NoRenderBeforeStoresInitialized ==
    \A el \in DOMAIN nodes :
        ( /\ PassAboutToRender(el) \/ RafAboutToRender(el)
          /\ InDocument(nodes, el) ) =>
            /\ StoresInitialized
            /\ embedded = "valid" =>
                  IsStyleguideRef(sgData, "style1", "shadow")

\* The elements of a kind of the tag order that are in the document and
\* have not been replaced by their rendered output.
Unrendered(ns) ==
    {i \in DOMAIN ns :
        /\ ~ns[i].out
        /\ \E k \in 1..Len(TagOrder) : TagOrder[k] = ns[i].kind
        /\ InDocument(ns, i)}

\* C29: when initFunnelWind returns, the document holds no unrendered
\* element of a kind of its tag order, cf-col-inner and the elements
\* re-created by an enclosing instance's replacement included.
C29_PassLeavesNoUnrenderedInstance ==
    passDone => Unrendered(nodes) = {}

(***************************************************************************)
(* Termination of the rendering.                                           *)
(***************************************************************************)
\* Nothing is left to render: no unrendered instance of a registered tag
\* is in the document, no callback is pending, no task is running.
Quiescent ==
    /\ Instances(nodes) = {}
    /\ pending = <<>>
    /\ Idle

\* C30: under fair scheduling of the animation frames every instance of a
\* registered tag that is in the document, re-created ones included, is
\* eventually rendered: the system reaches, and from some point on stays
\* in, states with no unrendered registered instance in the document and
\* no pending render callback.
C30_EveryInstanceEventuallyRendered ==
    <>[]Quiescent

\* C30 (case): in document 2 the inner flex container, re-created when the
\* outer one replaced itself, has been rendered, and nothing is left.
C30_Witness ==
    /\ doc = 2
    /\ ParseDone
    /\ Quiescent
    /\ \E i \in DOMAIN nodes :
          /\ i > Len(Source)
          /\ nodes[i].kind = "cf-flex" /\ ~nodes[i].out
          /\ nodes[i].renders = 1
          /\ nodes[i].paint = "t2"


=============================================================================
